---- MODULE Spec2Model ----
(***************************************************************************)
(* better-auth-capacitor: the client plugin of src/src/client.ts.          *)
(*                                                                         *)
(* Strings whose structure the code inspects (cookie names, URLs, storage  *)
(* keys) are sequences of tokens, so that startsWith / endsWith / includes *)
(* / replace are computed.  Cookie values and tokens are opaque strings.   *)
(* Times are milliseconds since the epoch, as Date.now() gives them.       *)
(***************************************************************************)
EXTENDS Integers, Sequences, FiniteSets, TLC

VARIABLES
    cin,        \* codec harness: the arguments of one call of a pure function
    cout,       \* codec harness: what the call returned
    opts,       \* capacitorClient(opts) and the platform it runs on
    clock,      \* seconds since the epoch: Date.now() is clock * 1000
    storage,    \* the Preferences backend: storage key -> stored text
    session,    \* store.atoms.session
    req,        \* request slot -> the hook invocation running for it
    browser,    \* the external browser surface: "closed" or "open"
    listeners,  \* appUrlOpen listener -> its state and its running callback
    bridge      \* the native plugin BetterAuthCapacitor and its calls

codecVars == <<cin, cout>>

clientVars == <<opts, clock, storage, session, req, browser, listeners, bridge>>

vars == <<cin, cout, opts, clock, storage, session, req, browser, listeners, bridge>>

----------------------------------------------------------------------------
(* Bounds of the model *)

MaxClock == 2          \* the clock takes the values 0 .. MaxClock seconds
MaxHeaderCookies == 2  \* cookies in one Set-Cookie header of the codec harness

----------------------------------------------------------------------------
(* Optional values: JavaScript's null / undefined next to a value *)

NoNum == [some |-> FALSE, v |-> 0]
SomeNum(n) == [some |-> TRUE, v |-> n]
NoStr == [some |-> FALSE, v |-> ""]
SomeStr(s) == [some |-> TRUE, v |-> s]

EmptyMap == [k \in {} |-> NoStr]

----------------------------------------------------------------------------
(* String operations on token sequences *)

StartsWith(s, p) == Len(p) <= Len(s) /\ SubSeq(s, 1, Len(p)) = p

EndsWith(s, p) == Len(p) <= Len(s) /\ SubSeq(s, Len(s) - Len(p) + 1, Len(s)) = p

Includes(s, p) ==
    \E i \in 1..(Len(s) - Len(p) + 1) : SubSeq(s, i, i + Len(p) - 1) = p

SECURE_COOKIE_PREFIX == <<"__Secure-">>

\* stripSecureCookiePrefix of better-auth/cookies
StripSecureCookiePrefix(name) ==
    IF StartsWith(name, SECURE_COOKIE_PREFIX)
    THEN SubSeq(name, Len(SECURE_COOKIE_PREFIX) + 1, Len(name))
    ELSE name

\* name.replace(/:/g, '_')
NormalizeCookieName(name) ==
    [i \in 1..Len(name) |-> IF name[i] = ":" THEN "_" ELSE name[i]]

----------------------------------------------------------------------------
(* Dates.  Date.prototype.toISOString keeps the milliseconds; String(date)  *)
(* keeps whole seconds only.                                               *)

MsPerSecond == 1000

ToISOString(ms) == SomeNum(ms)

\* new Date(isoString).getTime()
DateOfISO(iso) == iso.v

\* new Date(String(date)).getTime()
DateOfDateString(ms) == (ms \div MsPerSecond) * MsPerSecond

----------------------------------------------------------------------------
(* JSON texts as the storage holds them.  kind "object": a serialized      *)
(* record of cookie entries; "null": the text 'null'; "text": a text       *)
(* JSON.parse rejects; "absent": no stored value (Preferences gives null). *)

JSONStringify(map) == [kind |-> "object", entries |-> map]

NullStored == [kind |-> "absent", entries |-> EmptyMap]
BadText == [kind |-> "text", entries |-> EmptyMap]
NullText == [kind |-> "null", entries |-> EmptyMap]
EmptyJar == JSONStringify(EmptyMap)

\* a stored value is a non-empty string
Truthy(stored) == stored.kind # "absent"

\* JSON.parse(text) returns (does not throw)
JSONParses(text) == text.kind \in {"object", "null"}

\* JSON.parse(text) returns an object (not null)
JSONParsesToObject(text) == text.kind = "object"

----------------------------------------------------------------------------
(* Set-Cookie headers.  A header is the sequence of its cookies; a cookie  *)
(* is [name, value, maxAge, expires]: maxAge the number parseInt gives for *)
(* a Max-Age attribute, expires the time of an Expires attribute.          *)

Cookie(name, value, maxAge, expires) ==
    [name |-> name, value |-> value, maxAge |-> maxAge, expires |-> expires]

\* parseSetCookieHeader of better-auth/cookies: a Map from cookie name to
\* attributes; a later cookie of the same name replaces an earlier one, a
\* cookie without a name is skipped
ParseSetCookieHeader(header) ==
    LET idx == {i \in 1..Len(header) : header[i].name # <<>>}
        last(n) == CHOOSE i \in idx :
                      /\ header[i].name = n
                      /\ \A j \in idx : header[j].name = n => j <= i
    IN [n \in {header[i].name : i \in idx} |-> header[last(n)]]

\* lines 278-289: the expiry stored for one parsed cookie
CookieExpires(cookie, nowMs) ==
    IF cookie.maxAge.some /\ cookie.maxAge.v # 0
    THEN ToISOString(nowMs + cookie.maxAge.v * MsPerSecond)
    ELSE IF cookie.expires.some
         THEN ToISOString(DateOfDateString(cookie.expires.v))
         ELSE NoNum

\* lines 275-290: the record built from the incoming header
ToSetCookie(header, nowMs) ==
    LET parsed == ParseSetCookieHeader(header)
    IN [k \in DOMAIN parsed |->
           [value |-> parsed[k].value, expires |-> CookieExpires(parsed[k], nowMs)]]

\* { ...a, ...b }
Spread(a, b) ==
    [k \in DOMAIN a \cup DOMAIN b |-> IF k \in DOMAIN b THEN b[k] ELSE a[k]]

\* bug variant: the previous record wins on a name both records hold
GetSetCookiePrevWins(header, prevCookie, nowMs) ==
    LET toSetCookie == ToSetCookie(header, nowMs)
    IN JSONStringify(IF Truthy(prevCookie) /\ JSONParses(prevCookie)
                     THEN Spread(toSetCookie, prevCookie.entries)
                     ELSE toSetCookie)

getSetCookie(header, prevCookie, nowMs) ==
    LET toSetCookie == ToSetCookie(header, nowMs)
    IN JSONStringify(IF Truthy(prevCookie) /\ JSONParses(prevCookie)
                     THEN Spread(prevCookie.entries, toSetCookie)
                     ELSE toSetCookie)

\* bug variant: no expiry filter
GetCookieNoFilter(cookie, nowMs) ==
    IF ~JSONParses(cookie) THEN [threw |-> FALSE, pairs |-> {}]
    ELSE IF ~JSONParsesToObject(cookie) THEN [threw |-> TRUE, pairs |-> {}]
    ELSE [threw |-> FALSE,
          pairs |-> {<<k, cookie.entries[k].value>> : k \in DOMAIN cookie.entries}]

\* The Cookie header 'k1=v1; k2=v2' is the set of its name=value pairs.
\* Object.entries(null) throws outside the try block.
getCookie(cookie, nowMs) ==
    IF ~JSONParses(cookie) THEN [threw |-> FALSE, pairs |-> {}]
    ELSE IF ~JSONParsesToObject(cookie) THEN [threw |-> TRUE, pairs |-> {}]
    ELSE [threw |-> FALSE,
          pairs |-> {<<k, cookie.entries[k].value>> :
                       k \in {n \in DOMAIN cookie.entries :
                                \/ ~cookie.entries[n].expires.some
                                \/ DateOfISO(cookie.entries[n].expires) >= nowMs}}]

cookieSuffixes == {<<"session_token">>, <<"session_data">>}

\* bug variant: the secure naming prefix is left on the name
HasBetterAuthCookiesNoStrip(setCookieHeader, cookiePrefix) ==
    \E name \in DOMAIN ParseSetCookieHeader(setCookieHeader) :
        \E i \in 1..Len(cookiePrefix) :
            LET nameWithoutSecure == name
                prefix == cookiePrefix[i]
            IN IF prefix # <<>>
               THEN StartsWith(nameWithoutSecure, prefix)
               ELSE \E suffix \in cookieSuffixes : EndsWith(nameWithoutSecure, suffix)

\* cookiePrefix is the array of prefixes (a single string is [cookiePrefix])
hasBetterAuthCookies(setCookieHeader, cookiePrefix) ==
    \E name \in DOMAIN ParseSetCookieHeader(setCookieHeader) :
        \E i \in 1..Len(cookiePrefix) :
            LET nameWithoutSecure == StripSecureCookiePrefix(name)
                prefix == cookiePrefix[i]
            IN IF prefix # <<>>
               THEN StartsWith(nameWithoutSecure, prefix)
               ELSE \E suffix \in cookieSuffixes : EndsWith(nameWithoutSecure, suffix)

\* lines 370-378
IsSessionKey(key) ==
    Includes(key, <<"session_token">>) \/ Includes(key, <<"session_data">>)

\* obj[key]?.value
ValueAt(entries, key) ==
    IF key \in DOMAIN entries THEN SomeStr(entries[key].value) ELSE NoStr

\* bug variant: the whole entry is compared, expiry included
HasSessionCookieChangedWithExpiry(prevCookie, newCookie) ==
    IF ~Truthy(prevCookie) THEN TRUE
    ELSE IF ~(JSONParsesToObject(prevCookie) /\ JSONParsesToObject(newCookie)) THEN TRUE
    ELSE LET prev == prevCookie.entries
             next == newCookie.entries
             sessionKeys == {k \in DOMAIN prev \cup DOMAIN next : IsSessionKey(k)}
         IN \E key \in sessionKeys :
                \/ ~(key \in DOMAIN prev /\ key \in DOMAIN next)
                \/ prev[key] # next[key]

\* Object.keys(null) throws inside the try block: the catch returns true
hasSessionCookieChanged(prevCookie, newCookie) ==
    IF ~Truthy(prevCookie) THEN TRUE
    ELSE IF ~(JSONParsesToObject(prevCookie) /\ JSONParsesToObject(newCookie)) THEN TRUE
    ELSE LET prev == prevCookie.entries
             next == newCookie.entries
             sessionKeys == {k \in DOMAIN prev \cup DOMAIN next : IsSessionKey(k)}
         IN \E key \in sessionKeys : ValueAt(prev, key) # ValueAt(next, key)

\* `${prefix}.session_token` and its secure-prefixed form
SessionTokenName(prefix) == prefix \o <<".", "session_token">>
SecureSessionTokenName(prefix) == SECURE_COOKIE_PREFIX \o SessionTokenName(prefix)
OAuthStateName(prefix) == prefix \o <<".", "oauth_state">>
SecureOAuthStateName(prefix) == SECURE_COOKIE_PREFIX \o OAuthStateName(prefix)

\* value || null
OrNull(v) == IF v.some /\ v.v # "" THEN v ELSE NoStr

\* bug variant: the plain name is tried first
TokenOfRecordPlainFirst(cookieData, prefix) ==
    LET tokenKey == IF SessionTokenName(prefix) \in DOMAIN cookieData
                    THEN SessionTokenName(prefix)
                    ELSE SecureSessionTokenName(prefix)
    IN OrNull(ValueAt(cookieData, tokenKey))

\* lines 204-208 and 637-640: secure prefix first, then regular
TokenOfRecord(cookieData, prefix) ==
    LET tokenKey == IF SecureSessionTokenName(prefix) \in DOMAIN cookieData
                    THEN SecureSessionTokenName(prefix)
                    ELSE SessionTokenName(prefix)
    IN OrNull(ValueAt(cookieData, tokenKey))

\* getCapacitorAuthToken on a native platform, given what Preferences.get
\* returned; indexing null throws inside the try block
TokenOfStored(storedCookie, cookiePrefix) ==
    IF ~Truthy(storedCookie) THEN NoStr
    ELSE IF ~JSONParsesToObject(storedCookie) THEN NoStr
    ELSE TokenOfRecord(storedCookie.entries, cookiePrefix)

\* init, lines 632-644: JSON.parse(storedCookie || '{}') with the first prefix
BearerTokenOfStored(storedCookie, cookiePrefix) ==
    LET text == IF Truthy(storedCookie) THEN storedCookie ELSE EmptyJar
    IN IF ~JSONParsesToObject(text) THEN NoStr
       ELSE TokenOfRecord(text.entries, cookiePrefix[1])

\* getOAuthStateValue: the first truthy candidate, prefixes in order,
\* the secure-prefixed name before the plain one
getOAuthStateValue(cookieJson, cookiePrefix) ==
    IF ~Truthy(cookieJson) \/ ~JSONParsesToObject(cookieJson) THEN NoStr
    ELSE LET parsed == cookieJson.entries
             candidates == [i \in 1..(2 * Len(cookiePrefix)) |->
                              IF i % 2 = 1
                              THEN SecureOAuthStateName(cookiePrefix[(i + 1) \div 2])
                              ELSE OAuthStateName(cookiePrefix[i \div 2])]
             hits == {i \in DOMAIN candidates : OrNull(ValueAt(parsed, candidates[i])).some}
         IN IF hits = {} THEN NoStr
            ELSE ValueAt(parsed, candidates[CHOOSE i \in hits : \A j \in hits : i <= j])

----------------------------------------------------------------------------
(* The server plugin capacitor(options) of index.ts.  A request is the     *)
(* pair of its Origin and capacitor-origin headers; a redirect location is *)
(* the sequence of tokens of its text and the cookie query parameter.      *)

NoRequest == [origin |-> NoStr, capacitorOrigin |-> NoStr]

NoContext == [path |-> <<>>, location |-> <<>>, setCookie |-> NoStr, trustedOrigins |-> {}]

\* the arguments of one call of a server hook
NoServerCall == [disableOriginOverride |-> FALSE, request |-> NoRequest, ctx |-> NoContext]

\* what the call left: the request onRequest returned (if any), the request
\* it was given, the location header of the response
NoServerResult ==
    [returned |-> FALSE, request |-> NoRequest, original |-> NoRequest,
     location |-> [text |-> <<>>, cookie |-> NoStr]]

\* bug variant: an Origin header the request carries is overridden
OnRequestOverrides(options, request) ==
    IF options.disableOriginOverride
    THEN [returned |-> FALSE, request |-> NoRequest, original |-> request]
    ELSE IF ~OrNull(request.capacitorOrigin).some
    THEN [returned |-> FALSE, request |-> NoRequest, original |-> request]
    ELSE [returned |-> TRUE,
          request |-> [request EXCEPT !.origin = request.capacitorOrigin],
          original |-> request]

\* onRequest(request, _ctx), index.ts lines 38-59
onRequest(options, request) ==
    IF options.disableOriginOverride \/ OrNull(request.origin).some
    THEN [returned |-> FALSE, request |-> NoRequest, original |-> request]
    ELSE IF ~OrNull(request.capacitorOrigin).some
    THEN [returned |-> FALSE, request |-> NoRequest, original |-> request]
    ELSE [returned |-> TRUE,
          request |-> [request EXCEPT !.origin = request.capacitorOrigin],
          original |-> request]

\* hooks.after[].matcher, lines 64-70
matcher(path) ==
    \/ StartsWith(path, <<"/callback">>)
    \/ StartsWith(path, <<"/oauth2/callback">>)
    \/ StartsWith(path, <<"/magic-link/verify">>)
    \/ StartsWith(path, <<"/verify-email">>)

\* origin.startsWith('http')
StartsWithHttp(origin) == StartsWith(origin, <<"http">>)

\* bug variant: every trusted origin counts, the HTTP ones included
AfterHandlerAnyOrigin(ctx) ==
    LET unchanged == [text |-> ctx.location, cookie |-> NoStr]
        isTrustedOrigin == \E origin \in ctx.trustedOrigins : StartsWith(ctx.location, origin)
    IN IF ctx.location = <<>> THEN unchanged
       ELSE IF Includes(ctx.location, <<"/oauth-proxy-callback">>) THEN unchanged
       ELSE IF ~isTrustedOrigin THEN unchanged
       ELSE IF ~OrNull(ctx.setCookie).some THEN unchanged
       ELSE [text |-> ctx.location, cookie |-> ctx.setCookie]

\* hooks.after[].handler, lines 72-100: the location header after the hook
AfterHandler(ctx) ==
    LET unchanged == [text |-> ctx.location, cookie |-> NoStr]
        trustedOrigins == {origin \in ctx.trustedOrigins : ~StartsWithHttp(origin)}
        isTrustedOrigin == \E origin \in trustedOrigins : StartsWith(ctx.location, origin)
    IN IF ctx.location = <<>> THEN unchanged
       ELSE IF Includes(ctx.location, <<"/oauth-proxy-callback">>) THEN unchanged
       ELSE IF ~isTrustedOrigin THEN unchanged
       ELSE IF ~OrNull(ctx.setCookie).some THEN unchanged
       ELSE [text |-> ctx.location, cookie |-> ctx.setCookie]

\* hooks.after[0].matcher of part_001, lines 69-75: the social sign-in paths
signInMatcher(path) ==
    \/ StartsWith(path, <<"/sign-in", "/social">>)
    \/ StartsWith(path, <<"/sign-in", "/oauth2">>)
    \/ StartsWith(path, <<"/link-social">>)

\* hooks.after[0].handler of part_001, lines 76-89: what the endpoint
\* returned, after the hook; capacitorOrigin is the header of the request
SuppressRedirect(capacitorOrigin, returned) ==
    IF capacitorOrigin = <<>> THEN returned
    ELSE IF returned.url # "" /\ returned.redirect
         THEN [returned EXCEPT !.redirect = FALSE]
         ELSE returned

----------------------------------------------------------------------------
(* The native plugin BetterAuthCapacitor.  A call of openAuthSession is    *)
(* idle, pending, resolved or rejected; `settled` counts its resolve and   *)
(* reject invocations, `session` is the ASWebAuthenticationSession of iOS. *)

IdleCall == [status |-> "idle", code |-> "", url |-> "", settled |-> 0, session |-> "none"]

\* no plugin is loaded (platform "none"); on Android the plugin keeps
\* savedCallbackId and redirectScheme, and the Custom Tab is closed (never
\* launched), open, redirected to a deep link, or dismissed by the user
NoBridge ==
    [platform |-> "none", calls |-> EmptyMap, savedCallbackId |-> NoStr,
     redirectScheme |-> NoStr, tab |-> "closed"]

\* call.resolve({url})
Resolve(call, url) ==
    [call EXCEPT !.status = "resolved", !.url = url, !.settled = @ + 1, !.session = "none"]

\* call.reject(message, code)
Reject(call, code) ==
    [call EXCEPT !.status = "rejected", !.code = code, !.settled = @ + 1, !.session = "none"]

\* iOS, BetterAuthCapacitorPlugin.swift lines 14-36 and part_000 lines 36-61:
\* the arguments are checked and the session is started
IosOpenAuthSession(c, valid) ==
    /\ bridge.platform = "ios"
    /\ bridge.calls[c].status = "idle"
    /\ bridge' = [bridge EXCEPT !.calls[c] =
                    IF ~valid THEN Reject(@, "")
                    ELSE [@ EXCEPT !.status = "pending", !.session = "active"]]
    /\ UNCHANGED <<cin, cout, opts, clock, storage, session, req, browser, listeners>>

\* AuthSessionError.code, part_000 lines 20-29, for what the completion
\* handler of the session is given: a callback URL, the error
\* canceledLogin, another error, or neither
CompletionResult(call, outcome) ==
    CASE outcome = "canceledLogin" -> Reject(call, "USER_CANCELED")
      [] outcome = "error" -> Reject(call, "AUTH_FAILED")
      [] outcome = "nothing" -> Reject(call, "NO_CALLBACK")
      [] OTHER -> Resolve(call, "myapp://cb")

\* the system ends the session and runs its completion handler
IosCompletion(c, outcome) ==
    /\ bridge.platform = "ios"
    /\ bridge.calls[c].session = "active"
    /\ bridge' = [bridge EXCEPT !.calls[c] = CompletionResult(@, outcome)]
    /\ UNCHANGED <<cin, cout, opts, clock, storage, session, req, browser, listeners>>

\* Android, BetterAuthCapacitorPlugin.kt lines 18-35: the call is saved and
\* the Custom Tab is launched
AndroidOpenAuthSession(c, valid) ==
    /\ bridge.platform = "android"
    /\ bridge.calls[c].status = "idle"
    /\ bridge' = IF ~valid
                 THEN [bridge EXCEPT !.calls[c] = Reject(@, "")]
                 ELSE [bridge EXCEPT !.calls[c].status = "pending",
                                     !.redirectScheme = SomeStr("myapp"),
                                     !.savedCallbackId = SomeStr(c),
                                     !.tab = "open"]
    /\ UNCHANGED <<cin, cout, opts, clock, storage, session, req, browser, listeners>>

\* handleOnNewIntent(intent), lines 37-55; data is the scheme of intent.data
handleOnNewIntent(b, data) ==
    IF ~data.some \/ ~b.redirectScheme.some \/ ~b.savedCallbackId.some THEN b
    ELSE IF data.v # b.redirectScheme.v THEN b
    ELSE [b EXCEPT !.calls[b.savedCallbackId.v] = Resolve(@, "myapp://cb"),
                   !.savedCallbackId = NoStr,
                   !.redirectScheme = NoStr]

\* the page in the Custom Tab redirects to a deep link, which the system
\* delivers to the activity
AndroidRedirect(data) ==
    /\ bridge.platform = "android"
    /\ bridge.tab = "open"
    /\ bridge' = [handleOnNewIntent(bridge, data) EXCEPT !.tab = "redirected"]
    /\ UNCHANGED <<cin, cout, opts, clock, storage, session, req, browser, listeners>>

\* the user closes the Custom Tab: no code of the plugin runs
AndroidUserDismisses ==
    /\ bridge.platform = "android"
    /\ bridge.tab = "open"
    /\ bridge' = [bridge EXCEPT !.tab = "dismissed"]
    /\ UNCHANGED <<cin, cout, opts, clock, storage, session, req, browser, listeners>>

----------------------------------------------------------------------------
(* Codec harness: one call of a pure function of client.ts on arguments    *)
(* drawn from bounded sets.                                                *)

DefaultPrefix == <<"better-auth">>
PlainToken == SessionTokenName(DefaultPrefix)
SecureToken == SecureSessionTokenName(DefaultPrefix)
SessionData == DefaultPrefix \o <<".", "session_data">>
ThirdParty == <<"__cf_bm">>

Clocks == {c * MsPerSecond : c \in 0..MaxClock}

\* every record of cookie entries over the given names, values and expiries
Records(names, values, expiries) ==
    UNION {[D -> [value : values, expires : expiries]] : D \in SUBSET names}

HeaderCookies ==
    {Cookie(n, v, a[1], a[2]) :
        n \in {PlainToken, ThirdParty},
        v \in {"a", "b"},
        a \in {<<NoNum, NoNum>>, <<SomeNum(1), NoNum>>, <<NoNum, SomeNum(MsPerSecond)>>}}

Headers == UNION {[1..n -> HeaderCookies] : n \in 1..MaxHeaderCookies}

\* Set-Cookie headers as a server sends them for the session token,
\* a deletion ('name=; Max-Age=0') included
TokenCookies ==
    {Cookie(n, v, IF v = "" THEN SomeNum(0) ELSE NoNum, NoNum) :
        n \in {PlainToken, SecureToken},
        v \in {"", "a", "b"}}

TokenHeaders == UNION {[1..n -> TokenCookies] : n \in 1..MaxHeaderCookies}

\* now: what Date.now() gives during the call; later: during a second call
NoArgs ==
    [fn |-> "none", header |-> <<>>, prev |-> NullStored, next |-> NullStored, now |-> 0,
     later |-> 0, prefix |-> <<>>, server |-> NoServerCall]

CodecInputs ==
    {[NoArgs EXCEPT !.fn = "getCookie", !.prev = JSONStringify(r), !.now = t] :
        r \in Records({PlainToken, ThirdParty}, {"a", "b"},
                      {NoNum} \cup {ToISOString(c) : c \in Clocks}),
        t \in Clocks}
    \cup
    {[NoArgs EXCEPT !.fn = "getSetCookie", !.header = h, !.prev = p, !.now = t] :
        h \in Headers,
        p \in {NullStored} \cup
              {JSONStringify(r) :
                 r \in Records({PlainToken, SecureToken}, {"c"},
                               {NoNum, ToISOString(MsPerSecond)})},
        t \in {0, MsPerSecond}}
    \cup
    {[NoArgs EXCEPT !.fn = "hasSessionCookieChanged", !.prev = p, !.next = JSONStringify(n)] :
        p \in {NullStored} \cup
              {JSONStringify(r) :
                 r \in Records({PlainToken, SessionData, ThirdParty}, {"a", "b"},
                               {NoNum, ToISOString(MsPerSecond)})},
        n \in Records({PlainToken, SessionData, ThirdParty}, {"a", "b"},
                      {NoNum, ToISOString(MsPerSecond)})}
    \cup
    {[NoArgs EXCEPT !.fn = "token", !.prev = p] :
        p \in {NullStored} \cup {getSetCookie(h, NullStored, 0) : h \in TokenHeaders}}

NoResult ==
    [fn |-> "none", text |-> NullStored, threw |-> FALSE, pairs |-> {},
     flag |-> FALSE, token |-> NoStr, bearer |-> NoStr, server |-> NoServerResult]

\* no client is constructed in the codec harness
NoClient ==
    /\ opts = [native |-> FALSE, scheme |-> "", disableCache |-> FALSE,
               cookiePrefix |-> <<DefaultPrefix>>]
    /\ clock = 0
    /\ storage = EmptyMap
    /\ session = [data |-> NoStr, error |-> NoStr, isPending |-> FALSE]
    /\ req = EmptyMap
    /\ browser = "closed"
    /\ bridge = NoBridge
    /\ listeners = EmptyMap

CodecInit == cin \in CodecInputs /\ cout = NoResult /\ NoClient

CallGetCookie ==
    /\ cin.fn = "getCookie" /\ cout.fn = "none"
    /\ LET r == getCookie(cin.prev, cin.now)
       IN cout' = [NoResult EXCEPT !.fn = cin.fn, !.threw = r.threw, !.pairs = r.pairs]
    /\ UNCHANGED <<cin, clientVars>>

CallGetSetCookie ==
    /\ cin.fn = "getSetCookie" /\ cout.fn = "none"
    /\ cout' = [NoResult EXCEPT !.fn = cin.fn,
                                !.text = getSetCookie(cin.header, cin.prev, cin.now)]
    /\ UNCHANGED <<cin, clientVars>>

CallHasSessionCookieChanged ==
    /\ cin.fn = "hasSessionCookieChanged" /\ cout.fn = "none"
    /\ cout' = [NoResult EXCEPT !.fn = cin.fn,
                                !.flag = hasSessionCookieChanged(cin.prev, cin.next)]
    /\ UNCHANGED <<cin, clientVars>>

\* getCapacitorAuthToken({cookiePrefix}) and the token init derives
CallToken ==
    /\ cin.fn = "token" /\ cout.fn = "none"
    /\ cout' = [NoResult EXCEPT !.fn = cin.fn,
                                !.token = TokenOfStored(cin.prev, DefaultPrefix),
                                !.bearer = BearerTokenOfStored(cin.prev, <<DefaultPrefix>>)]
    /\ UNCHANGED <<cin, clientVars>>

CodecNext ==
    \/ CallGetCookie
    \/ CallGetSetCookie
    \/ CallHasSessionCookieChanged
    \/ CallToken

SpecCodec == CodecInit /\ [][CodecNext]_vars

----------------------------------------------------------------------------
(* Claims about the codec *)

\* C1: the header getCookie returns holds no name=value pair of an entry
\* whose expires is earlier than the current time, and holds the pair of
\* every entry whose expires is null or later than the current time.
C1_ExpiryFiltering ==
    cout.fn = "getCookie" =>
        /\ ~cout.threw
        /\ \A k \in DOMAIN cin.prev.entries :
              LET e == cin.prev.entries[k]
              IN /\ (e.expires.some /\ e.expires.v < cin.now)
                        => <<k, e.value>> \notin cout.pairs
                 /\ (~e.expires.some \/ e.expires.v > cin.now)
                        => <<k, e.value>> \in cout.pairs

\* a jar with an expired entry and a live one, and the header built from it
C1_Witness ==
    /\ cout.fn = "getCookie"
    /\ \E k1, k2 \in DOMAIN cin.prev.entries :
          /\ cin.prev.entries[k1].expires.some
          /\ cin.prev.entries[k1].expires.v < cin.now
          /\ cin.prev.entries[k2].expires.some
          /\ cin.prev.entries[k2].expires.v > cin.now
          /\ cin.prev.entries[k1].value # cin.prev.entries[k2].value
          /\ cout.pairs = {<<k2, cin.prev.entries[k2].value>>}

\* C17: an entry whose expires is non-null and equal to the current time is
\* filtered out of the header getCookie returns.
C17_BoundaryDropped ==
    cout.fn = "getCookie" =>
        \A k \in DOMAIN cin.prev.entries :
            LET e == cin.prev.entries[k]
            IN (e.expires.some /\ DateOfISO(e.expires) = cin.now)
                  => <<k, e.value>> \notin cout.pairs

\* C2: getSetCookie(header, prev) is a last-write-wins merge per cookie
\* name: every cookie named in header carries the incoming value and
\* expiry, every entry of prev not named in header is kept unchanged, and
\* no other entries appear.
C2_LastWriteWins ==
    cout.fn = "getSetCookie" =>
        LET incoming == ToSetCookie(cin.header, cin.now)
            named == {cin.header[i].name : i \in 1..Len(cin.header)}
            prev == cin.prev.entries
            result == cout.text.entries
        IN /\ cout.text.kind = "object"
           /\ DOMAIN result = named \cup DOMAIN prev
           /\ \A k \in named : result[k] = incoming[k]
           /\ \A k \in DOMAIN prev \ named : result[k] = prev[k]

\* a merge where one name is in both records with different values and one
\* name only in the previous record
C2_Witness ==
    /\ cout.fn = "getSetCookie"
    /\ \E k1, k2 \in DOMAIN cin.prev.entries :
          /\ k1 \in DOMAIN ToSetCookie(cin.header, cin.now)
          /\ ToSetCookie(cin.header, cin.now)[k1] # cin.prev.entries[k1]
          /\ k2 \notin DOMAIN ToSetCookie(cin.header, cin.now)
          /\ cout.text.entries[k2] = cin.prev.entries[k2]

\* C3: hasSessionCookieChanged(prev, next) is true when prev is absent;
\* otherwise it is true exactly when some name containing 'session_token' or
\* 'session_data', of either record, has a different value in the two
\* records (present in only one counts as different); records that differ
\* only in expires give false.
C3_ChangeDetection ==
    cout.fn = "hasSessionCookieChanged" =>
        LET prev == cin.prev.entries
            next == cin.next.entries
            differs(k) ==
                \/ (k \in DOMAIN prev) # (k \in DOMAIN next)
                \/ k \in DOMAIN prev /\ k \in DOMAIN next /\ prev[k].value # next[k].value
        IN /\ cin.prev.kind = "absent" => cout.flag
           /\ cin.prev.kind # "absent" =>
                 (cout.flag <=>
                    \E k \in DOMAIN prev \cup DOMAIN next :
                        /\ \/ Includes(k, <<"session_token">>)
                           \/ Includes(k, <<"session_data">>)
                        /\ differs(k))
           /\ ( /\ cin.prev.kind # "absent"
                /\ DOMAIN prev = DOMAIN next
                /\ \A k \in DOMAIN prev : prev[k].value = next[k].value )
              => ~cout.flag

\* two records that differ only in the expires of the session token
C3_Witness ==
    /\ cout.fn = "hasSessionCookieChanged"
    /\ cin.prev.kind = "object"
    /\ DOMAIN cin.prev.entries = DOMAIN cin.next.entries
    /\ PlainToken \in DOMAIN cin.prev.entries
    /\ cin.prev.entries[PlainToken].value = cin.next.entries[PlainToken].value
    /\ cin.prev.entries[PlainToken].expires # cin.next.entries[PlainToken].expires
    /\ ~cout.flag

----------------------------------------------------------------------------
(* The client plugin: capacitorClient(opts), lines 440-697.                *)
(*                                                                         *)
(* Every hook is an async function.  It runs from one await to the next in *)
(* one step; other hooks may run in between.  A Preferences, Browser or    *)
(* App call takes effect when it is issued, and the hook resumes in a      *)
(* later step.  Awaits of module imports (getPreferencesMod,               *)
(* initializeManagers, Promise.all of the Browser and App modules) touch   *)
(* no state of the plugin and are joined with the step that follows them.  *)

storagePrefix == <<"my", ":", "app">>
cookieName == storagePrefix \o <<"_cookie">>
localCacheName == storagePrefix \o <<"_session_data">>
CookieKey == NormalizeCookieName(cookieName)
SessionKey == NormalizeCookieName(localCacheName)

\* JSON.stringify(context.data)
DataText(data) == [kind |-> "data", entries |-> EmptyMap, data |-> data]

NoData == [redirect |-> FALSE, url |-> "", session |-> ""]

NoResponse == [authToken |-> "", setCookie |-> <<>>, data |-> NoData]

NoBody ==
    [idToken |-> FALSE, callbackURL |-> <<>>, newUserCallbackURL |-> <<>>,
     errorCallbackURL |-> <<>>]

NoOptions ==
    [credentials |-> "same-origin", authorization |-> NoStr, cookie |-> NoStr,
     origin |-> <<>>, skipProxy |-> FALSE, body |-> NoBody]

NoProxy == [opened |-> FALSE, url |-> <<>>]

IdleRequest ==
    [pc |-> "idle", url |-> <<>>, options |-> NoOptions, resp |-> NoResponse,
     prev |-> NullStored, new |-> NullStored,
     notifiedToken |-> FALSE, notifiedCookie |-> FALSE, proxy |-> NoProxy]

\* isNativePlatform()
isNativePlatform == opts.native

\* getOrigin(scheme): `${scheme}://`
getOrigin(scheme) == <<scheme, ":/", "/">>

\* Preferences.set({key, value})
PreferencesSet(key, value) == storage' = [storage EXCEPT ![key] = value]

\* bug variant: the scheme is put before every field that is present
RewriteCallbackEveryField(field) ==
    IF field # <<>>
    THEN <<opts.scheme, ":/">> \o field
    ELSE field

\* lines 663-677: one callback field of the request body
RewriteCallback(field) ==
    IF field # <<>> /\ StartsWith(field, <<"/">>)
    THEN <<opts.scheme, ":/">> \o field
    ELSE field

\* bug variant: the stored jar is sent as a Cookie header, with credentials
InitOptionsSendsCookie(options, bearerToken) ==
    [options EXCEPT
        !.authorization = IF bearerToken.some THEN bearerToken ELSE @,
        !.cookie = bearerToken,
        !.origin = IF opts.scheme # "" THEN getOrigin(opts.scheme) ELSE @,
        !.skipProxy = IF opts.scheme # "" THEN TRUE ELSE @,
        !.body = IF opts.scheme # ""
                 THEN [@ EXCEPT !.callbackURL = RewriteCallback(@),
                                !.newUserCallbackURL = RewriteCallback(@),
                                !.errorCallbackURL = RewriteCallback(@)]
                 ELSE @]

\* lines 646-678: the options init returns, given the token it derived
InitOptions(options, bearerToken) ==
    [options EXCEPT
        !.credentials = "omit",
        !.authorization = IF bearerToken.some THEN bearerToken ELSE @,
        !.origin = IF opts.scheme # "" THEN getOrigin(opts.scheme) ELSE @,
        !.skipProxy = IF opts.scheme # "" THEN TRUE ELSE @,
        !.body = IF opts.scheme # ""
                 THEN [@ EXCEPT !.callbackURL = RewriteCallback(@),
                                !.newUserCallbackURL = RewriteCallback(@),
                                !.errorCallbackURL = RewriteCallback(@)]
                 ELSE @]

\* init(url, options), lines 619-629: up to the Preferences.get it awaits.
\* Off a native platform it returns at once.
InitCall(r, url, body) ==
    /\ req[r].pc = "idle"
    /\ req' = [req EXCEPT ![r] =
                 IF ~isNativePlatform
                 THEN [IdleRequest EXCEPT !.pc = "sent", !.url = url, !.options.body = body]
                 ELSE [IdleRequest EXCEPT !.pc = "init_get", !.url = url,
                                          !.options.body = body,
                                          !.prev = storage[CookieKey]]]
    /\ UNCHANGED <<cin, cout, opts, clock, storage, session, browser, listeners, bridge>>

\* bug variant: on a sign-out URL the jar is reset before the token is taken
\* from it
InitAfterGetResetsFirst(r) ==
    /\ req[r].pc = "init_get"
    /\ LET q == req[r]
           signOut == Includes(q.url, <<"/sign-out">>)
           bearerToken == BearerTokenOfStored(IF signOut THEN EmptyJar ELSE q.prev,
                                              opts.cookiePrefix)
           options == InitOptions(q.options, bearerToken)
       IN IF signOut
          THEN /\ PreferencesSet(CookieKey, EmptyJar)
               /\ req' = [req EXCEPT ![r] = [q EXCEPT !.pc = "init_set_cookie",
                                                      !.options = options,
                                                      !.prev = NullStored]]
          ELSE /\ req' = [req EXCEPT ![r] = [q EXCEPT !.pc = "sent",
                                                      !.options = options,
                                                      !.prev = NullStored]]
               /\ UNCHANGED storage
    /\ UNCHANGED <<cin, cout, opts, clock, session, browser, listeners, bridge>>

\* lines 631-682: the token, the headers, the body; on a sign-out URL the
\* jar is reset and init awaits that write
InitAfterGet(r) ==
    /\ req[r].pc = "init_get"
    /\ LET q == req[r]
           bearerToken == BearerTokenOfStored(q.prev, opts.cookiePrefix)
           options == InitOptions(q.options, bearerToken)
       IN IF Includes(q.url, <<"/sign-out">>)
          THEN /\ PreferencesSet(CookieKey, EmptyJar)
               /\ req' = [req EXCEPT ![r] = [q EXCEPT !.pc = "init_set_cookie",
                                                      !.options = options,
                                                      !.prev = NullStored]]
          ELSE /\ req' = [req EXCEPT ![r] = [q EXCEPT !.pc = "sent",
                                                      !.options = options,
                                                      !.prev = NullStored]]
               /\ UNCHANGED storage
    /\ UNCHANGED <<cin, cout, opts, clock, session, browser, listeners, bridge>>

\* lines 683-689: the session atom is reset, the cache write is awaited
InitAfterSetCookie(r) ==
    /\ req[r].pc = "init_set_cookie"
    /\ session' = [session EXCEPT !.data = NoStr, !.error = NoStr, !.isPending = FALSE]
    /\ PreferencesSet(SessionKey, EmptyJar)
    /\ req' = [req EXCEPT ![r].pc = "init_set_cache"]
    /\ UNCHANGED <<cin, cout, opts, clock, browser, listeners, bridge>>

\* line 692: init returns and the request is sent
InitReturn(r) ==
    /\ req[r].pc = "init_set_cache"
    /\ req' = [req EXCEPT ![r].pc = "sent"]
    /\ UNCHANGED <<cin, cout, opts, clock, storage, session, browser, listeners, bridge>>

----------------------------------------------------------------------------
(* hooks.onSuccess(context), lines 495-616 *)

baseURL == "https://api.example.com/api/auth"

\* the server's response to the request arrives
Respond(r, resp) ==
    /\ req[r].pc = "sent"
    /\ req' = [req EXCEPT ![r].pc = "received", ![r].resp = resp]
    /\ UNCHANGED <<cin, cout, opts, clock, storage, session, browser, listeners, bridge>>

\* line 504
HasAuthToken(q) == q.resp.authToken # ""

\* bug variant: every Set-Cookie header is taken for the auth system's
HasAuthCookiesAnyHeader(q) == q.resp.setCookie # <<>>

\* lines 530-533
HasAuthCookies(q) ==
    q.resp.setCookie # <<>> /\ hasBetterAuthCookies(q.resp.setCookie, opts.cookiePrefix)

\* bug variant: disableCache is not looked at
CachesSessionIgnoresDisable(q) == Includes(q.url, <<"/get-session">>)

\* lines 549-552
CachesSession(q) == Includes(q.url, <<"/get-session">>) /\ ~opts.disableCache

\* bug variant: a body with an idToken starts the exchange too
StartsOAuthWithIdToken(q) ==
    /\ q.resp.data.redirect
    /\ Includes(q.url, <<"/sign-in">>) \/ Includes(q.url, <<"/link-social">>)
    /\ opts.scheme # ""

\* lines 561-567
StartsOAuth(q) ==
    /\ q.resp.data.redirect
    /\ Includes(q.url, <<"/sign-in">>) \/ Includes(q.url, <<"/link-social">>)
    /\ ~q.options.body.idToken
    /\ opts.scheme # ""

\* The sections of onSuccess in order: 1 set-auth-token, 2 Set-Cookie,
\* 3 session cache, 4 OAuth redirect, 5 return.  The first section at or
\* after `from` whose condition holds.
NextSection(q, from) ==
    IF from <= 1 /\ HasAuthToken(q) THEN 1
    ELSE IF from <= 2 /\ HasAuthCookies(q) THEN 2
    ELSE IF from <= 3 /\ CachesSession(q) THEN 3
    ELSE IF from <= 4 /\ StartsOAuth(q) THEN 4
    ELSE 5

\* onSuccess runs on from section `from` to the next call it awaits: the
\* Preferences.get of sections 1, 2 and 4 (lines 506, 534, 573), or the
\* Preferences.set of section 3 (lines 554-557)
Advance(r, q, from) ==
    LET section == NextSection(q, from)
    IN /\ req' = [req EXCEPT ![r] =
                    CASE section = 1 -> [q EXCEPT !.pc = "token_get", !.prev = storage[CookieKey]]
                      [] section = 2 -> [q EXCEPT !.pc = "cookie_get", !.prev = storage[CookieKey]]
                      [] section = 3 -> [q EXCEPT !.pc = "cache_set"]
                      [] section = 4 -> [q EXCEPT !.pc = "oauth_get", !.prev = storage[CookieKey]]
                      [] OTHER -> [q EXCEPT !.pc = "done"]]
       /\ IF section = 3
          THEN PreferencesSet(SessionKey, DataText(q.resp.data))
          ELSE UNCHANGED storage

\* bug variant: the platform is not looked at
OnSuccessCallAnyPlatform(r) ==
    /\ req[r].pc = "received"
    /\ Advance(r, req[r], 1)
    /\ UNCHANGED <<cin, cout, opts, clock, session, browser, listeners, bridge>>

\* lines 495-503
OnSuccessCall(r) ==
    /\ req[r].pc = "received"
    /\ IF ~isNativePlatform
       THEN req' = [req EXCEPT ![r].pc = "done"] /\ UNCHANGED storage
       ELSE Advance(r, req[r], 1)
    /\ UNCHANGED <<cin, cout, opts, clock, session, browser, listeners, bridge>>

\* line 515: `${baseCookieName}=${authToken}, ${secureCookieName}=${authToken}`
TokenCookieHeader(authToken) ==
    <<Cookie(SessionTokenName(opts.cookiePrefix[1]), authToken, NoNum, NoNum),
      Cookie(SecureSessionTokenName(opts.cookiePrefix[1]), authToken, NoNum, NoNum)>>

\* lines 505-525: the merged jar is written in both branches
TokenAfterGet(r) ==
    /\ req[r].pc = "token_get"
    /\ LET q == req[r]
           newCookie == getSetCookie(TokenCookieHeader(q.resp.authToken), q.prev,
                                     clock * MsPerSecond)
       IN /\ PreferencesSet(CookieKey, newCookie)
          /\ req' = [req EXCEPT ![r] = [q EXCEPT !.pc = "token_set", !.new = newCookie]]
    /\ UNCHANGED <<cin, cout, opts, clock, session, browser, listeners, bridge>>

\* bug variant: the signal is sent on every set-auth-token header
TokenAfterSetAlwaysNotifies(r) ==
    /\ req[r].pc = "token_set"
    /\ Advance(r, [req[r] EXCEPT !.notifiedToken = TRUE], 2)
    /\ UNCHANGED <<cin, cout, opts, clock, session, browser, listeners, bridge>>

\* lines 518-521: store.notify('$sessionSignal') after the write, when the
\* session cookies changed
TokenAfterSet(r) ==
    /\ req[r].pc = "token_set"
    /\ Advance(r, [req[r] EXCEPT
                      !.notifiedToken = hasSessionCookieChanged(req[r].prev, req[r].new)], 2)
    /\ UNCHANGED <<cin, cout, opts, clock, session, browser, listeners, bridge>>

\* bug variant: the jar is read again when the merge is written, so that
\* the read and the write are one step
CookieAfterGetRereads(r) ==
    /\ req[r].pc = "cookie_get"
    /\ LET q == req[r]
           toSetCookie == getSetCookie(q.resp.setCookie, storage[CookieKey],
                                       clock * MsPerSecond)
       IN /\ PreferencesSet(CookieKey, toSetCookie)
          /\ req' = [req EXCEPT ![r] = [q EXCEPT !.pc = "cookie_set", !.new = toSetCookie]]
    /\ UNCHANGED <<cin, cout, opts, clock, session, browser, listeners, bridge>>

\* lines 534-544
CookieAfterGet(r) ==
    /\ req[r].pc = "cookie_get"
    /\ LET q == req[r]
           toSetCookie == getSetCookie(q.resp.setCookie, q.prev, clock * MsPerSecond)
       IN /\ PreferencesSet(CookieKey, toSetCookie)
          /\ req' = [req EXCEPT ![r] = [q EXCEPT !.pc = "cookie_set", !.new = toSetCookie]]
    /\ UNCHANGED <<cin, cout, opts, clock, session, browser, listeners, bridge>>

\* lines 537-540
CookieAfterSet(r) ==
    /\ req[r].pc = "cookie_set"
    /\ Advance(r, [req[r] EXCEPT
                      !.notifiedCookie = hasSessionCookieChanged(req[r].prev, req[r].new)], 3)
    /\ UNCHANGED <<cin, cout, opts, clock, session, browser, listeners, bridge>>

\* line 558
CacheAfterSet(r) ==
    /\ req[r].pc = "cache_set"
    /\ Advance(r, req[r], 4)
    /\ UNCHANGED <<cin, cout, opts, clock, session, browser, listeners, bridge>>

\* URLSearchParams.toString() of one value: reserved characters are
\* percent-encoded; the other values of the model have none
URLSearchParamsEncode(value) ==
    IF value = "https://idp/auth" THEN "https%3A%2F%2Fidp%2Fauth" ELSE value

\* lines 576-581: the proxy URL for the sign-in URL and the state value
ProxyURL(signInURL, oauthStateValue) ==
    <<baseURL, "/capacitor-authorization-proxy?",
      "authorizationURL=", URLSearchParamsEncode(signInURL)>>
    \o (IF OrNull(oauthStateValue).some
        THEN <<"&oauthState=", URLSearchParamsEncode(oauthStateValue.v)>>
        ELSE <<>>)

\* lines 571-584: the proxy URL is built and Browser.open is awaited
OAuthAfterGet(r) ==
    /\ req[r].pc = "oauth_get"
    /\ LET q == req[r]
           oauthStateValue == getOAuthStateValue(q.prev, opts.cookiePrefix)
       IN req' = [req EXCEPT ![r] =
                    [q EXCEPT !.pc = "oauth_open",
                              !.proxy = [opened |-> TRUE,
                                         url |-> ProxyURL(q.resp.data.url, oauthStateValue)]]]
    /\ browser' = "open"
    /\ UNCHANGED <<cin, cout, opts, clock, storage, session, listeners, bridge>>

NoLink == [text |-> <<>>, cookie |-> <<>>]

IdleListener ==
    [live |-> FALSE, callbackURL |-> <<>>, pc |-> "idle", url |-> NoLink,
     prev |-> NullStored, notified |-> FALSE,
     closeCalled |-> FALSE, closeFailed |-> FALSE]

\* line 587: App.addListener('appUrlOpen', ...) registers the listener,
\* which keeps the callbackURL of the request body (line 570); the handle
\* is there before a deep link can arrive
OAuthAfterOpen(r) ==
    /\ req[r].pc = "oauth_open"
    /\ \E l \in DOMAIN listeners :
          /\ ~listeners[l].live /\ listeners[l].pc = "idle"
          /\ \A k \in DOMAIN listeners :
                (~listeners[k].live /\ listeners[k].pc = "idle") => l <= k
          /\ listeners' = [listeners EXCEPT ![l] =
                              [IdleListener EXCEPT !.live = TRUE,
                                 !.callbackURL = req[r].options.body.callbackURL]]
    /\ req' = [req EXCEPT ![r].pc = "done"]
    /\ UNCHANGED <<cin, cout, opts, clock, storage, session, browser, bridge>>

\* onSuccess has returned; the slot serves the next request
Finish(r) ==
    /\ req[r].pc = "done"
    /\ req' = [req EXCEPT ![r] = IdleRequest]
    /\ UNCHANGED <<cin, cout, opts, clock, storage, session, browser, listeners, bridge>>

----------------------------------------------------------------------------
(* The appUrlOpen listener, lines 587-614.  A deep link is                 *)
(* [text, cookie]: the URL text before the first '?' as tokens             *)
(* (scheme, ":/", "/", host, path ...) and the Set-Cookie header its       *)
(* cookie query parameter carries (<<>> when it has none).                  *)

\* new URL(url) does not throw
URLParses(text) == Len(text) >= 2 /\ text[2] = ":/"

\* new URL(url).pathname: what follows the host
Pathname(text) ==
    IF Len(text) >= 3 /\ text[3] = "/"
    THEN SubSeq(text, 5, Len(text))
    ELSE SubSeq(text, 3, Len(text))

\* lines 599-600
MatchesCallback(callbackURL, text) ==
    callbackURL # <<>> /\ (Pathname(text) = callbackURL \/ text = callbackURL)

\* bug variant: the browser is closed whatever URL the app was opened with
CheckCallbackAlwaysCloses(L, browserClosed) ==
    [L EXCEPT !.pc = "cb_close", !.closeCalled = TRUE, !.closeFailed = browserClosed]

\* lines 598-609 for listener record L: on a match Browser.close() is
\* awaited; it fails when the browser is closed already
CheckCallback(L, browserClosed) ==
    IF MatchesCallback(L.callbackURL, L.url.text)
    THEN [L EXCEPT !.pc = "cb_close", !.closeCalled = TRUE, !.closeFailed = browserClosed]
    ELSE [L EXCEPT !.pc = "cb_done"]

\* bug variant: the URL is taken apart without new URL(), nothing throws
EnterCallbackNoParse(L, url, browserClosed) ==
    IF url.cookie # <<>>
    THEN [L EXCEPT !.pc = "cb_get", !.url = url, !.prev = storage[CookieKey]]
    ELSE CheckCallback([L EXCEPT !.url = url], browserClosed)

\* lines 588-592: the callback of listener record L from its call to its
\* first await
EnterCallback(L, url, browserClosed) ==
    IF ~URLParses(url.text) THEN [L EXCEPT !.pc = "cb_done", !.url = url]
    ELSE IF url.cookie # <<>>
         THEN [L EXCEPT !.pc = "cb_get", !.url = url, !.prev = storage[CookieKey]]
         ELSE CheckCallback([L EXCEPT !.url = url], browserClosed)

\* The app is opened through a URL: every registered listener is called, in
\* the order of registration.  (At most one callback runs per listener.)
DeepLink(url) ==
    /\ \E l \in DOMAIN listeners : listeners[l].live
    /\ \A l \in DOMAIN listeners : listeners[l].pc = "idle"
    /\ LET entered(l) == EnterCallback(listeners[l], url, TRUE)
           closes(l) == listeners[l].live /\ entered(l).pc = "cb_close"
           closedBefore(l) ==
               browser = "closed" \/ \E k \in DOMAIN listeners : k < l /\ closes(k)
       IN /\ listeners' = [l \in DOMAIN listeners |->
                             IF listeners[l].live
                             THEN EnterCallback(listeners[l], url, closedBefore(l))
                             ELSE listeners[l]]
          /\ browser' = IF \E l \in DOMAIN listeners : closes(l) THEN "closed" ELSE browser
    /\ UNCHANGED <<cin, cout, opts, clock, storage, session, req, bridge>>

\* lines 593-594
CallbackAfterGet(l) ==
    /\ listeners[l].pc = "cb_get"
    /\ LET L == listeners[l]
           toSetCookie == getSetCookie(L.url.cookie, L.prev, clock * MsPerSecond)
       IN /\ PreferencesSet(CookieKey, toSetCookie)
          /\ listeners' = [listeners EXCEPT ![l] = [L EXCEPT !.pc = "cb_set"]]
    /\ UNCHANGED <<cin, cout, opts, clock, session, req, browser, bridge>>

\* lines 595-609: the signal, then the check of the callback URL
CallbackAfterSet(l) ==
    /\ listeners[l].pc = "cb_set"
    /\ LET L == CheckCallback([listeners[l] EXCEPT !.notified = TRUE, !.prev = NullStored],
                              browser = "closed")
       IN /\ listeners' = [listeners EXCEPT ![l] = L]
          /\ browser' = IF L.pc = "cb_close" THEN "closed" ELSE browser
    /\ UNCHANGED <<cin, cout, opts, clock, storage, session, req, bridge>>

\* lines 592-594 and 611-613: Preferences.get or Preferences.set rejects;
\* the outer catch ends the callback, nothing is written, the check of the
\* callback URL is skipped
CallbackStorageRejects(l) ==
    /\ listeners[l].pc = "cb_get"
    /\ listeners' = [listeners EXCEPT ![l].pc = "cb_done", ![l].prev = NullStored]
    /\ UNCHANGED <<cin, cout, opts, clock, storage, session, req, browser, bridge>>

\* bug variant: the listener is removed only when Browser.close succeeded
CallbackAfterCloseKeepsOnFailure(l) ==
    /\ listeners[l].pc = "cb_close"
    /\ listeners' = [listeners EXCEPT ![l].pc = "cb_done",
                                      ![l].live = listeners[l].closeFailed]
    /\ UNCHANGED <<cin, cout, opts, clock, storage, session, req, browser, bridge>>

\* lines 602-608: whether Browser.close() resolved or threw, handle.remove()
CallbackAfterClose(l) ==
    /\ listeners[l].pc = "cb_close"
    /\ listeners' = [listeners EXCEPT ![l].pc = "cb_done", ![l].live = FALSE]
    /\ UNCHANGED <<cin, cout, opts, clock, storage, session, req, browser, bridge>>

\* the callback has returned
CallbackReturn(l) ==
    /\ listeners[l].pc = "cb_done"
    /\ listeners' = [listeners EXCEPT ![l] =
                        IF listeners[l].live
                        THEN [IdleListener EXCEPT !.live = TRUE,
                                                  !.callbackURL = listeners[l].callbackURL]
                        ELSE IdleListener]
    /\ UNCHANGED <<cin, cout, opts, clock, storage, session, req, browser, bridge>>

\* bug variant: dismissing the browser cancels the exchange
UserClosesBrowserCancels ==
    /\ browser = "open"
    /\ browser' = "closed"
    /\ listeners' = [l \in DOMAIN listeners |->
                        IF listeners[l].pc = "idle" THEN IdleListener ELSE listeners[l]]
    /\ UNCHANGED <<cin, cout, opts, clock, storage, session, req, bridge>>

\* the user dismisses the browser
UserClosesBrowser ==
    /\ browser = "open"
    /\ browser' = "closed"
    /\ UNCHANGED <<cin, cout, opts, clock, storage, session, req, listeners, bridge>>

\* time passes
Tick ==
    /\ clock < MaxClock
    /\ clock' = clock + 1
    /\ UNCHANGED <<cin, cout, opts, storage, session, req, browser, listeners, bridge>>

----------------------------------------------------------------------------
(* The token helpers (lines 110-213) and the plugin actions (lines         *)
(* 451-488).  A call runs as one step.  `fails` names the Preferences call *)
(* of that run that rejects: "none", or "get" / "set" / "first" / "second" *)
(* for the calls in the order the function makes them.                     *)

\* 7 * 24 * 60 * 60 * 1000
SevenDays == 7 * 24 * 60 * 60 * MsPerSecond

\* Preferences.remove({key})
Removed(store, keys) == [k \in DOMAIN store |-> IF k \in keys THEN NullStored ELSE store[k]]

\* lines 139-145: both names get the token and the expiry
TokenEntries(prefix, token, expires) ==
    [k \in {SessionTokenName(prefix), SecureSessionTokenName(prefix)} |->
        [value |-> token, expires |-> expires]]

\* setCapacitorAuthToken({token, expiresAt}): true when the jar was written.
\* A stored text that parses to a non-object makes the assignment of line
\* 144 throw inside the try block.
setCapacitorAuthToken(token, expiresAt, fails) ==
    LET existingCookie == storage[CookieKey]
        expires == IF expiresAt.some THEN expiresAt
                   ELSE ToISOString(clock * MsPerSecond + SevenDays)
        parsed == Truthy(existingCookie) /\ JSONParses(existingCookie)
        cookieData == Spread(IF parsed THEN existingCookie.entries ELSE EmptyMap,
                             TokenEntries(opts.cookiePrefix[1], token, expires))
        written == /\ isNativePlatform
                   /\ fails = "none"
                   /\ parsed => JSONParsesToObject(existingCookie)
    IN /\ cout' = [NoResult EXCEPT !.fn = "setCapacitorAuthToken", !.flag = written]
       /\ storage' = IF written
                     THEN [storage EXCEPT ![CookieKey] = JSONStringify(cookieData)]
                     ELSE storage
       /\ UNCHANGED <<cin, opts, clock, session, req, browser, listeners, bridge>>

\* clearCapacitorAuthToken(): true when both keys were removed
clearCapacitorAuthToken(fails) ==
    LET removed == IF ~isNativePlatform \/ fails = "first" THEN {}
                   ELSE IF fails = "second" THEN {CookieKey}
                   ELSE {CookieKey, SessionKey}
    IN /\ cout' = [NoResult EXCEPT !.fn = "clearCapacitorAuthToken",
                                   !.flag = isNativePlatform /\ fails = "none"]
       /\ storage' = Removed(storage, removed)
       /\ UNCHANGED <<cin, opts, clock, session, req, browser, listeners, bridge>>

\* getCapacitorAuthToken()
getCapacitorAuthToken(fails) ==
    /\ cout' = [NoResult EXCEPT
                  !.fn = "getCapacitorAuthToken",
                  !.token = IF isNativePlatform /\ fails = "none"
                            THEN TokenOfStored(storage[CookieKey], opts.cookiePrefix[1])
                            ELSE NoStr]
    /\ UNCHANGED <<cin, clientVars>>

\* the plugin action getCookie, lines 457-461: the promise rejects when
\* Preferences.get rejects or getCookie throws
ActionGetCookie(fails) ==
    LET value == storage[CookieKey]
        r == getCookie(IF Truthy(value) THEN value ELSE EmptyJar, clock * MsPerSecond)
    IN /\ cout' = IF fails = "none"
                  THEN [NoResult EXCEPT !.fn = "actions.getCookie", !.threw = r.threw,
                                        !.pairs = r.pairs]
                  ELSE [NoResult EXCEPT !.fn = "actions.getCookie", !.threw = TRUE]
       /\ UNCHANGED <<cin, clientVars>>

\* the plugin action getCachedSession, lines 466-477: the parsed cache, or
\* null (an absent text here)
getCachedSession(fails) ==
    LET value == storage[SessionKey]
    IN /\ cout' = IF fails = "none"
                  THEN [NoResult EXCEPT
                          !.fn = "getCachedSession",
                          !.text = IF value.kind \in {"absent", "text", "null"}
                                   THEN NullStored ELSE value]
                  ELSE [NoResult EXCEPT !.fn = "getCachedSession", !.threw = TRUE]
       /\ UNCHANGED <<cin, clientVars>>

\* the plugin action clearStorage, lines 482-486
clearStorage(fails) ==
    LET removed == IF fails = "first" THEN {}
                   ELSE IF fails = "second" THEN {CookieKey}
                   ELSE {CookieKey, SessionKey}
    IN /\ cout' = [NoResult EXCEPT !.fn = "clearStorage", !.threw = fails # "none"]
       /\ storage' = Removed(storage, removed)
       /\ UNCHANGED <<cin, opts, clock, session, req, browser, listeners, bridge>>

\* init when a Preferences call it awaits rejects: the get of line 629, the
\* jar write of line 682 (nothing is written), or the cache write of line
\* 689 (the session atom is reset before it).  No try block encloses them.
InitRejects(r) ==
    /\ \/ /\ req[r].pc = "init_get"
          /\ UNCHANGED session
       \/ /\ req[r].pc = "init_set_cookie"
          /\ session' = [session EXCEPT !.data = NoStr, !.error = NoStr,
                                        !.isPending = FALSE]
    /\ req' = [req EXCEPT ![r].pc = "rejected"]
    /\ UNCHANGED <<cin, cout, opts, clock, storage, browser, listeners, bridge>>

\* onSuccess when the Preferences.get or the Preferences.set of the
\* set-auth-token or Set-Cookie section rejects (lines 506-524, 534-543)
OnSuccessRejects(r) ==
    /\ req[r].pc \in {"token_get", "cookie_get"}
    /\ req' = [req EXCEPT ![r].pc = "rejected"]
    /\ UNCHANGED <<cin, cout, opts, clock, storage, session, browser, listeners, bridge>>

\* the caller of the hook has seen the rejection
Rejected(r) ==
    /\ req[r].pc = "rejected"
    /\ req' = [req EXCEPT ![r] = IdleRequest]
    /\ UNCHANGED <<cin, cout, opts, clock, storage, session, browser, listeners, bridge>>

----------------------------------------------------------------------------
(* The fetch hooks, one request after the other: init, the server's        *)
(* response, onSuccess.  No sign-in request is made, so no OAuth exchange  *)
(* starts.                                                                 *)

NativeConfig ==
    [native |-> TRUE, scheme |-> "myapp", disableCache |-> FALSE,
     cookiePrefix |-> <<DefaultPrefix>>]

FetchConfigs == {NativeConfig, [NativeConfig EXCEPT !.native = FALSE]}

FetchURLs == {<<"/get-session">>, <<"/sign-out">>, <<"/update-user">>}

SessionCookieHeader == <<Cookie(PlainToken, "a", SomeNum(1), NoNum)>>
ThirdPartyHeader == <<Cookie(ThirdParty, "x", NoNum, NoNum)>>

FetchResponses ==
    {[NoResponse EXCEPT !.authToken = t, !.setCookie = h, !.data.session = "user"] :
        t \in {"", "a", "b"}, h \in {<<>>, SessionCookieHeader, ThirdPartyHeader}}

LoggedIn == [data |-> SomeStr("user"), error |-> NoStr, isPending |-> TRUE]

\* a client constructed with one of `configs`, serving `slots` requests at
\* a time, with room for the listeners `ids`; nothing is stored yet
ClientInit(configs, slots, ids) ==
    /\ cin = NoArgs /\ cout = NoResult
    /\ opts \in configs
    /\ clock = 0
    /\ storage = [k \in {CookieKey, SessionKey} |-> NullStored]
    /\ session = LoggedIn
    /\ req = [r \in slots |-> IdleRequest]
    /\ browser = "closed"
    /\ bridge = NoBridge
    /\ listeners = [l \in ids |-> IdleListener]

Init == ClientInit(FetchConfigs, {"r1"}, {})

Next ==
    \/ \E r \in DOMAIN req, url \in FetchURLs : InitCall(r, url, NoBody)
    \/ \E r \in DOMAIN req : InitAfterGet(r)
    \/ \E r \in DOMAIN req : InitAfterSetCookie(r)
    \/ \E r \in DOMAIN req : InitReturn(r)
    \/ \E r \in DOMAIN req, resp \in FetchResponses : Respond(r, resp)
    \/ \E r \in DOMAIN req : OnSuccessCall(r)
    \/ \E r \in DOMAIN req : TokenAfterGet(r)
    \/ \E r \in DOMAIN req : TokenAfterSet(r)
    \/ \E r \in DOMAIN req : CookieAfterGet(r)
    \/ \E r \in DOMAIN req : CookieAfterSet(r)
    \/ \E r \in DOMAIN req : CacheAfterSet(r)
    \/ \E r \in DOMAIN req : Finish(r)
    \/ Tick

Spec == Init /\ [][Next]_vars

----------------------------------------------------------------------------
(* Claims about onSuccess, checked under Spec *)

\* the header onSuccess merges at the await the request is at
HeaderAt(q) ==
    IF q.pc = "token_get" THEN TokenCookieHeader(q.resp.authToken) ELSE q.resp.setCookie

\* the session entries of two jars have the same names and values
SameSessionValues(prev, new) ==
    /\ prev.kind = "object" /\ new.kind = "object"
    /\ {k \in DOMAIN prev.entries : IsSessionKey(k)} = {k \in DOMAIN new.entries : IsSessionKey(k)}
    /\ \A k \in DOMAIN prev.entries :
          IsSessionKey(k) => prev.entries[k].value = new.entries[k].value

\* C4: on a native platform onSuccess enters the token section exactly when
\* the response has a set-auth-token header and the cookie section exactly
\* when its Set-Cookie header has auth cookies; each section writes the
\* merge of its header into the jar it read; it notifies '$sessionSignal'
\* exactly when hasSessionCookieChanged(jar read, merged jar); a merge that
\* leaves the names and values of the session entries as they were never
\* notifies.
C4_WriteAlwaysNotifyOnChange ==
    [][\A r \in DOMAIN req :
         LET q == req[r]
             q2 == req'[r]
         IN /\ (q.pc = "received" /\ q2.pc # "received" /\ isNativePlatform)
                  => /\ HasAuthToken(q) <=> q2.pc = "token_get"
                     /\ (~HasAuthToken(q))
                          => (q2.pc = "cookie_get" <=>
                                (q.resp.setCookie # <<>>
                                   /\ hasBetterAuthCookies(q.resp.setCookie, opts.cookiePrefix)))
            /\ (q.pc = "token_set" /\ q2.pc # "token_set")
                  => (q2.pc = "cookie_get" <=>
                        (q.resp.setCookie # <<>>
                           /\ hasBetterAuthCookies(q.resp.setCookie, opts.cookiePrefix)))
            /\ (q.pc \in {"token_get", "cookie_get"} /\ q2.pc # q.pc)
                  => /\ storage'[CookieKey] =
                           getSetCookie(HeaderAt(q), q.prev, clock * MsPerSecond)
                     /\ q2.new = storage'[CookieKey]
                     /\ q2.prev = q.prev
            /\ (q.pc = "token_set" /\ q2.pc # "token_set")
                  => /\ q2.notifiedToken <=> hasSessionCookieChanged(q.prev, q.new)
                     /\ SameSessionValues(q.prev, q.new) => ~q2.notifiedToken
            /\ (q.pc = "cookie_set" /\ q2.pc # "cookie_set")
                  => /\ q2.notifiedCookie <=> hasSessionCookieChanged(q.prev, q.new)
                     /\ SameSessionValues(q.prev, q.new) => ~q2.notifiedCookie
            /\ (q2.notifiedToken /\ ~q.notifiedToken) => q.pc = "token_set"
            /\ (q2.notifiedCookie /\ ~q.notifiedCookie) => q.pc = "cookie_set"]_vars

\* a Set-Cookie header renewed the session cookie: the jar holds the later
\* expiry, the value is the one it had, and no signal was sent
C4_Witness ==
    \E r \in DOMAIN req :
        /\ req[r].pc = "done"
        /\ req[r].resp.authToken = "" /\ req[r].resp.setCookie = SessionCookieHeader
        /\ req[r].prev.kind = "object" /\ PlainToken \in DOMAIN req[r].prev.entries
        /\ req[r].prev.entries[PlainToken].value = req[r].new.entries[PlainToken].value
        /\ req[r].prev.entries[PlainToken].expires # req[r].new.entries[PlainToken].expires
        /\ storage[CookieKey] = req[r].new
        /\ ~req[r].notifiedCookie

\* the response has a Set-Cookie header with third-party cookies only and
\* no set-auth-token header
ThirdPartyOnly(q) ==
    /\ q.resp.authToken = ""
    /\ q.resp.setCookie # <<>>
    /\ ~hasBetterAuthCookies(q.resp.setCookie, opts.cookiePrefix)

\* C5: while onSuccess handles a response whose Set-Cookie header has only
\* third-party cookies and which has no set-auth-token header, the stored
\* jar stays as it is and '$sessionSignal' is not notified.
C5_ThirdPartyIgnored ==
    [][\A r \in DOMAIN req :
         (ThirdPartyOnly(req[r]) /\ req[r].pc \in {"received", "cache_set", "done"})
            => /\ storage'[CookieKey] = storage[CookieKey]
               /\ ~req'[r].notifiedToken /\ ~req'[r].notifiedCookie
               /\ req'[r].pc \in {"received", "cache_set", "done", "idle"}]_vars

\* onSuccess has handled a __cf_bm cookie on a get-session response: the
\* session cache is written, the jar is still absent, no signal was sent
C5_Witness ==
    \E r \in DOMAIN req :
        /\ isNativePlatform
        /\ req[r].pc = "done"
        /\ ThirdPartyOnly(req[r])
        /\ req[r].resp.setCookie[1].name = ThirdParty
        /\ storage[SessionKey] = DataText(req[r].resp.data)
        /\ storage[CookieKey] = NullStored
        /\ ~req[r].notifiedToken /\ ~req[r].notifiedCookie

----------------------------------------------------------------------------
(* Two requests in flight at once: a get-session and a sign-out, with the  *)
(* responses a server gives to them.                                       *)

RaceURLs == {<<"/get-session">>, <<"/sign-out">>}

RaceResponses ==
    {[NoResponse EXCEPT !.setCookie = h, !.data.session = "user"] :
        h \in {<<>>, SessionCookieHeader}}

RaceInit == ClientInit({NativeConfig}, {"r1", "r2"}, {})

RaceNext ==
    \/ \E r \in DOMAIN req, url \in RaceURLs : InitCall(r, url, NoBody)
    \/ \E r \in DOMAIN req : InitAfterGet(r)
    \/ \E r \in DOMAIN req : InitAfterSetCookie(r)
    \/ \E r \in DOMAIN req : InitReturn(r)
    \/ \E r \in DOMAIN req, resp \in RaceResponses : Respond(r, resp)
    \/ \E r \in DOMAIN req : OnSuccessCall(r)
    \/ \E r \in DOMAIN req : CookieAfterGet(r)
    \/ \E r \in DOMAIN req : CookieAfterSet(r)
    \/ \E r \in DOMAIN req : CacheAfterSet(r)
    \/ \E r \in DOMAIN req : Finish(r)

SpecRace == RaceInit /\ [][RaceNext]_vars

----------------------------------------------------------------------------
(* Claims about init, checked under SpecRace *)

\* C7: when init returns for a URL containing '/sign-out' on a native
\* platform, the jar key holds '{}', the session-data cache key holds '{}'
\* and the session atom has data = null, error = null, isPending = false.
C7_SignOutResetAtReturn ==
    [][\A r \in DOMAIN req :
         (/\ isNativePlatform
          /\ Includes(req[r].url, <<"/sign-out">>)
          /\ req[r].pc \in {"init_get", "init_set_cookie", "init_set_cache"}
          /\ req'[r].pc = "sent")
            => /\ storage'[CookieKey] = EmptyJar
               /\ storage'[SessionKey] = EmptyJar
               /\ session'.data = NoStr /\ session'.error = NoStr
               /\ ~session'.isPending]_vars

----------------------------------------------------------------------------
(* The public operations in any order, on a storage backend whose calls    *)
(* may reject.                                                             *)

ApiTokens == {"b"}

ApiExpiries == {NoNum, ToISOString(MsPerSecond)}

ApiURLs == {<<"/get-session">>, <<"/sign-out">>}

ApiResponses ==
    {[NoResponse EXCEPT !.authToken = "a", !.data.session = "user"],
     [NoResponse EXCEPT !.setCookie = SessionCookieHeader, !.data.session = "user"]}

ApiInit == ClientInit(FetchConfigs, {"r1"}, {})

ApiNext ==
    \/ \E token \in ApiTokens, expiresAt \in ApiExpiries, fails \in {"none", "get", "set"} :
          setCapacitorAuthToken(token, expiresAt, fails)
    \/ \E fails \in {"none", "first", "second"} : clearCapacitorAuthToken(fails)
    \/ \E fails \in {"none", "get"} : getCapacitorAuthToken(fails)
    \/ \E fails \in {"none", "get"} : ActionGetCookie(fails)
    \/ \E fails \in {"none", "get"} : getCachedSession(fails)
    \/ \E fails \in {"none", "first", "second"} : clearStorage(fails)
    \/ \E r \in DOMAIN req, url \in ApiURLs : InitCall(r, url, NoBody)
    \/ \E r \in DOMAIN req : InitAfterGet(r)
    \/ \E r \in DOMAIN req : InitAfterSetCookie(r)
    \/ \E r \in DOMAIN req : InitReturn(r)
    \/ \E r \in DOMAIN req : InitRejects(r)
    \/ \E r \in DOMAIN req, resp \in ApiResponses : Respond(r, resp)
    \/ \E r \in DOMAIN req : OnSuccessCall(r)
    \/ \E r \in DOMAIN req : TokenAfterGet(r)
    \/ \E r \in DOMAIN req : TokenAfterSet(r)
    \/ \E r \in DOMAIN req : CookieAfterGet(r)
    \/ \E r \in DOMAIN req : CookieAfterSet(r)
    \/ \E r \in DOMAIN req : CacheAfterSet(r)
    \/ \E r \in DOMAIN req : OnSuccessRejects(r)
    \/ \E r \in DOMAIN req : Finish(r)
    \/ \E r \in DOMAIN req : Rejected(r)

SpecApi == ApiInit /\ [][ApiNext]_vars

\* C12: when a storage call rejects, no public operation rejects: the token
\* helpers return false / null, and the plugin actions getCookie,
\* getCachedSession, clearStorage and the hooks init and onSuccess complete.
C12_NoRejection ==
    /\ ~cout.threw
    /\ \A r \in DOMAIN req : req[r].pc # "rejected"

----------------------------------------------------------------------------
(* Header harness: getSetCookie, getCookie and hasBetterAuthCookies on     *)
(* headers whose cookies carry Max-Age (0 and negative included) and       *)
(* Expires attributes, with the clock read at each call.                   *)

CookieAttributes ==
    {<<NoNum, NoNum>>, <<SomeNum(0), NoNum>>, <<SomeNum(0), SomeNum(MsPerSecond)>>,
     <<SomeNum(1), NoNum>>, <<SomeNum(-1), NoNum>>, <<NoNum, SomeNum(MsPerSecond)>>}

AttributeCookies ==
    {Cookie(PlainToken, v, a[1], a[2]) : v \in {"a", "b"}, a \in CookieAttributes}
    \cup
    {Cookie(ThirdParty, "a", a[1], a[2]) : a \in CookieAttributes}

\* headers of one cookie and of two cookies
AttributeHeaders ==
    {<<c>> : c \in AttributeCookies} \cup {<<c, d>> : c, d \in AttributeCookies}

MergeTimes == {MsPerSecond, 2 * MsPerSecond}

PreviousJars ==
    {NullStored, EmptyJar,
     JSONStringify([k \in {PlainToken} |-> [value |-> "c", expires |-> NoNum]])}

CookieNames ==
    {PlainToken, SecureToken, ThirdParty,
     <<"foo_", "session_token">>,
     SECURE_COOKIE_PREFIX \o <<"foo_", "session_data">>,
     <<"session_token", "_x">>,
     <<"x-">> \o DefaultPrefix}

NameHeaders ==
    {<<Cookie(name, "x", NoNum, NoNum)>> : name \in CookieNames}
    \cup
    {<<Cookie(n1, "x", NoNum, NoNum), Cookie(n2, "x", NoNum, NoNum)>> :
        n1, n2 \in CookieNames}

\* the cookiePrefix option: '' is the empty sequence
PrefixLists ==
    {<<DefaultPrefix>>, << <<>> >>, << <<"my-app">> >>,
     << <<"my-app">>, DefaultPrefix >>, << <<"my-app">>, <<>> >>}

HeaderInputs ==
    {[NoArgs EXCEPT !.fn = "getSetCookie", !.header = h, !.now = t] :
        h \in AttributeHeaders, t \in MergeTimes}
    \cup
    {[NoArgs EXCEPT !.fn = "roundTrip", !.header = h, !.prev = EmptyJar,
                    !.now = t[1], !.later = t[2]] :
        h \in AttributeHeaders,
        t \in {u \in MergeTimes \X MergeTimes : u[1] <= u[2]}}
    \cup
    {[NoArgs EXCEPT !.fn = "mergeTwice", !.header = h, !.prev = p,
                    !.now = t[1], !.later = t[2]] :
        h \in AttributeHeaders, p \in PreviousJars,
        t \in {u \in MergeTimes \X MergeTimes : u[1] <= u[2]}}
    \cup
    {[NoArgs EXCEPT !.fn = "hasBetterAuthCookies", !.header = h, !.prefix = c] :
        h \in NameHeaders, c \in PrefixLists}

HeaderInit == cin \in HeaderInputs /\ cout = NoResult /\ NoClient

\* getCookie(getSetCookie(header, '{}'))
CallRoundTrip ==
    /\ cin.fn = "roundTrip" /\ cout.fn = "none"
    /\ LET r == getCookie(getSetCookie(cin.header, cin.prev, cin.now), cin.later)
       IN cout' = [NoResult EXCEPT !.fn = cin.fn, !.threw = r.threw, !.pairs = r.pairs]
    /\ UNCHANGED <<cin, clientVars>>

\* getSetCookie(h, getSetCookie(h, p))
CallMergeTwice ==
    /\ cin.fn = "mergeTwice" /\ cout.fn = "none"
    /\ cout' = [NoResult EXCEPT
                  !.fn = cin.fn,
                  !.text = getSetCookie(cin.header,
                                        getSetCookie(cin.header, cin.prev, cin.now),
                                        cin.later)]
    /\ UNCHANGED <<cin, clientVars>>

CallHasBetterAuthCookies ==
    /\ cin.fn = "hasBetterAuthCookies" /\ cout.fn = "none"
    /\ cout' = [NoResult EXCEPT !.fn = cin.fn,
                                !.flag = hasBetterAuthCookies(cin.header, cin.prefix)]
    /\ UNCHANGED <<cin, clientVars>>

HeaderNext ==
    \/ CallGetSetCookie
    \/ CallRoundTrip
    \/ CallMergeTwice
    \/ CallHasBetterAuthCookies

SpecHeaders == HeaderInit /\ [][HeaderNext]_vars

\* C14: the stored expires of every cookie getSetCookie parses is the
\* current time + max-age seconds whenever a max-age attribute is present
\* (0 included), otherwise the time of the expires attribute when present,
\* otherwise null.
C14_ExpiresFromMaxAge ==
    cout.fn = "getSetCookie" =>
        LET parsed == ParseSetCookieHeader(cin.header)
        IN \A n \in DOMAIN parsed :
              cout.text.entries[n].expires =
                 IF parsed[n].maxAge.some
                 THEN ToISOString(cin.now + parsed[n].maxAge.v * MsPerSecond)
                 ELSE IF parsed[n].expires.some
                      THEN ToISOString(DateOfDateString(parsed[n].expires.v))
                      ELSE NoNum

\* the name=value pairs of a header, one per distinct name
PairsOf(header) ==
    LET parsed == ParseSetCookieHeader(header)
    IN {<<n, parsed[n].value>> : n \in DOMAIN parsed}

\* C15 as stated: the round trip of a header contains exactly its
\* name=value pairs, whatever attributes the cookies carry.
C15_RoundTripAsStated ==
    cout.fn = "roundTrip" => (~cout.threw /\ cout.pairs = PairsOf(cin.header))

\* C15: the round trip of a header contains exactly the name=value pairs of
\* the cookies whose stored expires is null or not earlier than the time
\* getCookie runs.
C15_RoundTrip ==
    cout.fn = "roundTrip" =>
        LET parsed == ParseSetCookieHeader(cin.header)
            kept == {n \in DOMAIN parsed :
                       LET e == CookieExpires(parsed[n], cin.now)
                       IN ~e.some \/ DateOfISO(e) >= cin.later}
        IN /\ ~cout.threw
           /\ cout.pairs = {<<n, parsed[n].value>> : n \in kept}

\* a header of two names went through the round trip and one pair came back
C15_Witness ==
    /\ cout.fn = "roundTrip"
    /\ Cardinality(PairsOf(cin.header)) = 2
    /\ Cardinality(cout.pairs) = 1

\* the entries a previous jar contributes to a merge
PrevEntries(prevCookie) ==
    IF Truthy(prevCookie) /\ JSONParses(prevCookie) THEN prevCookie.entries ELSE EmptyMap

\* getSetCookie(h, p) at the time of the first merge
MergedOnce == JSONStringify(Spread(PrevEntries(cin.prev), ToSetCookie(cin.header, cin.now)))

\* C16 as stated: merging a header twice gives what merging it once gives,
\* also when the merges happen at different clock times.
C16_IdempotentAsStated ==
    cout.fn = "mergeTwice" => cout.text = MergedOnce

\* the header carries a max-age attribute that getSetCookie uses
UsesMaxAge(header) ==
    \E n \in DOMAIN ParseSetCookieHeader(header) :
        LET c == ParseSetCookieHeader(header)[n] IN c.maxAge.some /\ c.maxAge.v # 0

\* C16: merging a header twice gives what merging it once gives when both
\* merges read the same clock time or the header carries no non-zero
\* max-age; otherwise the two results have the same names and values and
\* differ only in the expires of the header's cookies with a non-zero
\* max-age, which is the time of the second merge + max-age.
C16_Idempotent ==
    cout.fn = "mergeTwice" =>
        LET parsed == ParseSetCookieHeader(cin.header)
            once == MergedOnce.entries
            twice == cout.text.entries
        IN /\ (cin.later = cin.now \/ ~UsesMaxAge(cin.header)) => cout.text = MergedOnce
           /\ cout.text.kind = "object"
           /\ DOMAIN twice = DOMAIN once
           /\ \A k \in DOMAIN twice :
                 /\ twice[k].value = once[k].value
                 /\ \/ twice[k].expires = once[k].expires
                    \/ /\ k \in DOMAIN parsed
                       /\ parsed[k].maxAge.some /\ parsed[k].maxAge.v # 0
                       /\ twice[k].expires =
                             ToISOString(cin.later + parsed[k].maxAge.v * MsPerSecond)

\* a header with a max-age was merged twice at two clock times into a jar
\* that holds another value under the same name
C16_Witness ==
    /\ cout.fn = "mergeTwice"
    /\ cin.later # cin.now
    /\ UsesMaxAge(cin.header)
    /\ PlainToken \in DOMAIN PrevEntries(cin.prev)
    /\ PlainToken \in DOMAIN ParseSetCookieHeader(cin.header)
    /\ cout.text # MergedOnce

\* C19: hasBetterAuthCookies is true exactly when some cookie name of the
\* header, the secure naming prefix stripped, starts with a non-empty
\* configured prefix, or ends with 'session_token' or 'session_data' while
\* a configured prefix is the empty string.
C19_HasBetterAuthCookies ==
    cout.fn = "hasBetterAuthCookies" =>
        (cout.flag <=>
            \E i \in 1..Len(cin.header), j \in 1..Len(cin.prefix) :
                LET name == cin.header[i].name
                    bare == IF name[1] = "__Secure-" THEN Tail(name) ELSE name
                    prefix == cin.prefix[j]
                IN \/ prefix # <<>> /\ StartsWith(bare, prefix)
                   \/ /\ prefix = <<>>
                      /\ \/ bare[Len(bare)] = "session_token"
                         \/ bare[Len(bare)] = "session_data")

\* '__Secure-better-auth.session_token=x' with ['better-auth'] gave true
C19_Witness ==
    /\ cout.fn = "hasBetterAuthCookies"
    /\ cin.header = <<Cookie(SecureToken, "x", NoNum, NoNum)>>
    /\ cin.prefix = <<DefaultPrefix>>
    /\ cout.flag

----------------------------------------------------------------------------
(* The readers of the jar on a storage that holds any text under the jar   *)
(* key: no value, a text JSON.parse rejects, the text 'null', a jar.       *)

StoredTexts ==
    {NullStored, BadText, NullText, EmptyJar,
     JSONStringify([k \in {SecureToken} |-> [value |-> "a", expires |-> NoNum]])}

StoredHeaders == {<<Cookie(PlainToken, "b", NoNum, NoNum)>>, ThirdPartyHeader}

StoredInputs ==
    {[NoArgs EXCEPT !.fn = "getSetCookie", !.header = h, !.prev = p] :
        h \in StoredHeaders, p \in StoredTexts}
    \cup
    {[NoArgs EXCEPT !.fn = "getCookie", !.prev = p] : p \in StoredTexts \ {NullStored}}

StoredInit ==
    /\ cin \in StoredInputs /\ cout = NoResult
    /\ opts = NativeConfig
    /\ clock = 0
    /\ storage \in [{CookieKey, SessionKey} -> StoredTexts]
    /\ storage[SessionKey] = NullStored
    /\ session = LoggedIn
    /\ req = [r \in {"r1"} |-> IdleRequest]
    /\ browser = "closed"
    /\ bridge = NoBridge
    /\ listeners = EmptyMap

StoredNext ==
    \/ CallGetSetCookie
    \/ CallGetCookie
    \/ setCapacitorAuthToken("b", NoNum, "none")
    \/ getCapacitorAuthToken("none")
    \/ ActionGetCookie("none")
    \/ \E r \in DOMAIN req : InitCall(r, <<"/get-session">>, NoBody)
    \/ \E r \in DOMAIN req : InitAfterGet(r)
    \/ \E r \in DOMAIN req, resp \in {NoResponse} : Respond(r, resp)
    \/ \E r \in DOMAIN req : OnSuccessCall(r)
    \/ \E r \in DOMAIN req : CacheAfterSet(r)
    \/ \E r \in DOMAIN req : Finish(r)

SpecStored == StoredInit /\ [][StoredNext]_vars

\* a stored text that is not a serialized record of cookies
Malformed(text) == text.kind \in {"text", "null"}

\* C13: every reader treats a malformed stored jar like an absent one and
\* does not throw: getSetCookie returns the incoming cookies alone,
\* getCookie returns '', getCapacitorAuthToken returns null, init attaches
\* no Authorization header, setCapacitorAuthToken writes a jar that holds
\* the token entries only.
C13_MalformedAsAbsent ==
    [][/\ (cout.fn = "none" /\ cout'.fn = "getSetCookie" /\ Malformed(cin.prev))
             => cout'.text = [kind |-> "object",
                              entries |-> ToSetCookie(cin.header, cin.now)]
       /\ (cout.fn = "none" /\ cout'.fn = "getCookie" /\ Malformed(cin.prev))
             => ~cout'.threw /\ cout'.pairs = {}
       /\ (cout' # cout /\ cout'.fn = "actions.getCookie" /\ Malformed(storage[CookieKey]))
             => ~cout'.threw /\ cout'.pairs = {}
       /\ (cout' # cout /\ cout'.fn = "getCapacitorAuthToken"
             /\ Malformed(storage[CookieKey]))
             => ~cout'.threw /\ cout'.token = NoStr
       /\ (cout' # cout /\ cout'.fn = "setCapacitorAuthToken"
             /\ Malformed(storage[CookieKey]))
             => /\ cout'.flag
                /\ storage'[CookieKey].kind = "object"
                /\ DOMAIN storage'[CookieKey].entries = {PlainToken, SecureToken}
       /\ \A r \in DOMAIN req :
             (req[r].pc = "init_get" /\ req'[r].pc # "init_get" /\ Malformed(req[r].prev))
                => /\ req'[r].pc = "sent"
                   /\ req'[r].options.authorization = NoStr]_vars

----------------------------------------------------------------------------
(* The last-login-method plugin (lastLoginMethodClient).  A text is stored *)
(* under a key once Preferences.set was called with that key.              *)

lastLoginMethodName == storagePrefix \o <<"_last_login_method">>

paths == {<<"/callback/">>, <<"/oauth2/callback/">>, <<"/sign-in/", "email">>,
          <<"/sign-up/", "email">>}

\* pathname.split('/').pop(): '' when the path ends with '/'
LastSegment(pathname) ==
    LET last == pathname[Len(pathname)]
    IN IF last \in {"/callback/", "/oauth2/callback/", "/sign-in/", "/sign-up/", "/siwe/"}
       THEN "" ELSE last

defaultResolveMethod(pathname) ==
    IF \E p \in paths : Includes(pathname, p) THEN SomeStr(LastSegment(pathname))
    ELSE IF Includes(pathname, <<"/siwe/">>) THEN SomeStr("siwe")
    ELSE IF Includes(pathname, <<"/passkey/verify-authentication">>) THEN SomeStr("passkey")
    ELSE NoStr

MethodText(method) == [kind |-> "data", entries |-> EmptyMap, data |-> method]

\* what Preferences.get gives for the key: the stored method or null
StoredMethod(store, key) ==
    IF key \in DOMAIN store /\ Truthy(store[key]) THEN SomeStr(store[key].data) ELSE NoStr

\* hooks.onResponse(ctx)
LastLoginOnResponse(url) ==
    LET lastMethod == defaultResolveMethod(url)
    IN /\ OrNull(lastMethod).some
       /\ storage' = (lastLoginMethodName :> MethodText(lastMethod.v)) @@ storage
       /\ cout' = [NoResult EXCEPT !.fn = "onResponse"]
       /\ UNCHANGED <<cin, opts, clock, session, req, browser, listeners, bridge>>

getLastUsedLoginMethod ==
    /\ cout' = [NoResult EXCEPT !.fn = "getLastUsedLoginMethod",
                                !.token = StoredMethod(storage, lastLoginMethodName)]
    /\ UNCHANGED <<cin, clientVars>>

clearLastUsedLoginMethod ==
    /\ storage' = [k \in DOMAIN storage |->
                     IF k = lastLoginMethodName THEN NullStored ELSE storage[k]]
    /\ cout' = [NoResult EXCEPT !.fn = "clearLastUsedLoginMethod"]
    /\ UNCHANGED <<cin, opts, clock, session, req, browser, listeners, bridge>>

isLastUsedLoginMethod(method) ==
    /\ cout' = [NoResult EXCEPT
                  !.fn = "isLastUsedLoginMethod",
                  !.flag = (StoredMethod(storage, lastLoginMethodName) = SomeStr(method))]
    /\ UNCHANGED <<cin, clientVars>>

LoginURLs ==
    {<<"/sign-in/", "email">>, <<"/callback/", "github">>, <<"/callback/">>,
     <<"/siwe/", "verify">>, <<"/passkey/verify-authentication">>, <<"/get-session">>}

LoginMethods == {"email", "github"}

LastLoginInit == ClientInit({NativeConfig}, {}, {})

LastLoginNext ==
    \/ \E url \in LoginURLs : LastLoginOnResponse(url)
    \/ getLastUsedLoginMethod
    \/ clearLastUsedLoginMethod
    \/ \E method \in LoginMethods : isLastUsedLoginMethod(method)
    \/ \E expiresAt \in ApiExpiries : setCapacitorAuthToken("b", expiresAt, "none")
    \/ clearCapacitorAuthToken("none")
    \/ getCapacitorAuthToken("none")
    \/ ActionGetCookie("none")
    \/ getCachedSession("none")
    \/ clearStorage("none")

SpecLastLogin == LastLoginInit /\ [][LastLoginNext]_vars

\* C20: every key the package has passed to the storage backend is the
\* normalized '<storagePrefix>_cookie', '<storagePrefix>_session_data' or
\* '<storagePrefix>_last_login_method', and contains no ':'.
C20_KeysNormalized ==
    \A key \in DOMAIN storage :
        /\ \A i \in 1..Len(key) : key[i] # ":"
        /\ key \in {NormalizeCookieName(storagePrefix \o <<suffix>>) :
                       suffix \in {"_cookie", "_session_data", "_last_login_method"}}

----------------------------------------------------------------------------
(* The OAuth exchange: sign-in requests one after the other, the browser,  *)
(* the deep links, the listeners' callbacks.                               *)

SecondPrefix == <<"app">>

OAuthConfig == [NativeConfig EXCEPT !.cookiePrefix = <<DefaultPrefix, SecondPrefix>>]

OAuthConfigs ==
    {OAuthConfig, [OAuthConfig EXCEPT !.scheme = ""], [OAuthConfig EXCEPT !.native = FALSE]}

OAuthURLs == {<<"/sign-in", "/social">>, <<"/link-social">>, <<"/callback">>}

RelativeCallback == <<"/", "cb">>

OAuthBodies ==
    {[NoBody EXCEPT !.callbackURL = RelativeCallback],
     [NoBody EXCEPT !.idToken = TRUE, !.callbackURL = RelativeCallback],
     NoBody}

\* the state cookies the server sets when it answers a social sign-in
OAuthStateHeaders ==
    {<<Cookie(SecureOAuthStateName(DefaultPrefix), "s1", NoNum, NoNum),
       Cookie(OAuthStateName(DefaultPrefix), "s2", NoNum, NoNum)>>,
     <<Cookie(SecureOAuthStateName(DefaultPrefix), "", SomeNum(0), NoNum)>>,
     <<Cookie(OAuthStateName(SecondPrefix), "s3", NoNum, NoNum)>>}

OAuthResponses ==
    {[NoResponse EXCEPT !.data.url = "https://idp/auth"]}
    \cup
    {[NoResponse EXCEPT !.setCookie = h, !.data.redirect = TRUE,
                        !.data.url = "https://idp/auth"] :
        h \in {<<>>} \cup OAuthStateHeaders}

CallbackLink == <<"myapp", ":/", "/", "cb">>
OtherLink == <<"myapp", ":/", "/", "other">>

DeepLinks ==
    {[text |-> t, cookie |-> c] :
        t \in {CallbackLink, OtherLink},
        c \in {<<>>, <<Cookie(SecureToken, "a", NoNum, NoNum)>>}}

OAuthInit == ClientInit(OAuthConfigs, {"r1"}, {1})

OAuthNext ==
    \/ \E r \in DOMAIN req, url \in OAuthURLs, body \in OAuthBodies : InitCall(r, url, body)
    \/ \E r \in DOMAIN req : InitAfterGet(r)
    \/ \E r \in DOMAIN req, resp \in OAuthResponses : Respond(r, resp)
    \/ \E r \in DOMAIN req : OnSuccessCall(r)
    \/ \E r \in DOMAIN req : CookieAfterGet(r)
    \/ \E r \in DOMAIN req : CookieAfterSet(r)
    \/ \E r \in DOMAIN req : OAuthAfterGet(r)
    \/ \E r \in DOMAIN req : OAuthAfterOpen(r)
    \/ \E r \in DOMAIN req : Finish(r)
    \/ \E url \in DeepLinks : DeepLink(url)
    \/ \E l \in DOMAIN listeners : CallbackAfterGet(l)
    \/ \E l \in DOMAIN listeners : CallbackAfterSet(l)
    \/ \E l \in DOMAIN listeners : CallbackAfterClose(l)
    \/ \E l \in DOMAIN listeners : CallbackReturn(l)
    \/ UserClosesBrowser

SpecOAuth == OAuthInit /\ [][OAuthNext]_vars

----------------------------------------------------------------------------
(* Claims about the OAuth exchange, checked under SpecOAuth *)

\* the conditions of C8 on a request and its response
OAuthExpected(q) ==
    /\ opts.native
    /\ q.resp.data.redirect
    /\ \E i \in DOMAIN q.url : q.url[i] \in {"/sign-in", "/link-social"}
    /\ ~q.options.body.idToken
    /\ opts.scheme # ""

\* the value of a jar's entry, "" when the jar has none
EntryValue(jar, name) ==
    IF jar.kind = "object" /\ name \in DOMAIN jar.entries THEN jar.entries[name].value ELSE ""

\* the first non-empty oauth_state value of a jar under two prefixes
ExpectedState(jar) ==
    LET p1 == opts.cookiePrefix[1]
        p2 == opts.cookiePrefix[2]
        s1 == EntryValue(jar, <<"__Secure-">> \o p1 \o <<".", "oauth_state">>)
        s2 == EntryValue(jar, p1 \o <<".", "oauth_state">>)
        s3 == EntryValue(jar, <<"__Secure-">> \o p2 \o <<".", "oauth_state">>)
        s4 == EntryValue(jar, p2 \o <<".", "oauth_state">>)
    IN IF s1 # "" THEN s1 ELSE IF s2 # "" THEN s2 ELSE IF s3 # "" THEN s3 ELSE s4

IsCallback(L, url) ==
    /\ L.callbackURL # <<>>
    /\ \/ url.text = L.callbackURL
       \/ Pathname(url.text) = L.callbackURL

\* C9: when a deep link whose URL equals the callbackURL is handled, a
\* cookie parameter is merged into the jar read, Browser.close is called
\* (the browser is closed afterwards), and the listener is removed, also
\* when Browser.close failed.
C9_MatchingCallback ==
    [][\A l \in DOMAIN listeners :
         LET L == listeners[l]
             L2 == listeners'[l]
         IN /\ (L.pc = "idle" /\ L2.pc # "idle" /\ IsCallback(L, L2.url))
                  => IF L2.url.cookie # <<>>
                     THEN L2.pc = "cb_get" /\ L2.prev = storage[CookieKey]
                     ELSE L2.pc = "cb_close" /\ L2.closeCalled /\ browser' = "closed"
            /\ (L.pc = "cb_get" /\ L2.pc # "cb_get" /\ IsCallback(L, L.url))
                  => /\ L2.pc = "cb_set"
                     /\ storage'[CookieKey] =
                          getSetCookie(L.url.cookie, L.prev, clock * MsPerSecond)
            /\ (L.pc = "cb_set" /\ L2.pc # "cb_set" /\ IsCallback(L, L.url))
                  => L2.pc = "cb_close" /\ L2.closeCalled /\ browser' = "closed"
            /\ (L.pc = "cb_close" /\ L2.pc # "cb_close")
                  => L2.pc = "cb_done" /\ ~L2.live /\ L2.closeCalled
            /\ (L2.pc = "cb_done" /\ IsCallback(L2, L2.url))
                  => L2.closeCalled /\ ~L2.live]_vars

\* the user had closed the browser when the callback link arrived: the
\* cookie is in the jar, Browser.close was called and failed, and the
\* listener is removed
C9_Witness ==
    \E l \in DOMAIN listeners :
        /\ listeners[l].pc = "cb_done"
        /\ listeners[l].url.text = CallbackLink
        /\ listeners[l].url.text = listeners[l].callbackURL
        /\ listeners[l].url.cookie # <<>>
        /\ EntryValue(storage[CookieKey], SecureToken) = "a"
        /\ listeners[l].closeCalled /\ listeners[l].closeFailed
        /\ ~listeners[l].live
        /\ browser = "closed"

\* C10: when a deep link whose URL parses and does not equal the
\* callbackURL is handled, a cookie parameter is merged into the jar read,
\* Browser.close is not called (the browser stays as it is), and the
\* listener stays registered with its callbackURL for a later deep link.
C10_OtherLink ==
    [][\A l \in DOMAIN listeners :
         LET L == listeners[l]
             L2 == listeners'[l]
         IN /\ (/\ L.pc = "idle" /\ L2.pc # "idle"
                /\ URLParses(L2.url.text) /\ ~IsCallback(L, L2.url))
                  => /\ IF L2.url.cookie # <<>>
                        THEN L2.pc = "cb_get" /\ L2.prev = storage[CookieKey]
                        ELSE L2.pc = "cb_done"
                     /\ browser' = browser
            /\ (L.pc = "cb_get" /\ L2.pc # "cb_get" /\ ~IsCallback(L, L.url))
                  => /\ L2.pc = "cb_set"
                     /\ storage'[CookieKey] =
                          getSetCookie(L.url.cookie, L.prev, clock * MsPerSecond)
                     /\ browser' = browser
            /\ (L.pc = "cb_set" /\ L2.pc # "cb_set" /\ ~IsCallback(L, L.url))
                  => L2.pc = "cb_done" /\ browser' = browser
            /\ (L2.pc = "cb_done" /\ URLParses(L2.url.text) /\ ~IsCallback(L2, L2.url))
                  => L2.live /\ ~L2.closeCalled
            /\ (L.pc = "cb_done" /\ L2.pc # "cb_done" /\ ~IsCallback(L, L.url))
                  => /\ L2.pc = "idle" /\ L2.live
                     /\ L2.callbackURL = L.callbackURL]_vars

\* a link to another URL of the app carried a cookie: the cookie is in the
\* jar, the browser is still open and the listener still registered
C10_Witness ==
    \E l \in DOMAIN listeners :
        /\ listeners[l].pc = "cb_done"
        /\ listeners[l].callbackURL = CallbackLink
        /\ listeners[l].url.text = OtherLink
        /\ listeners[l].url.cookie # <<>>
        /\ listeners[l].notified
        /\ EntryValue(storage[CookieKey], SecureToken) = "a"
        /\ ~listeners[l].closeCalled
        /\ listeners[l].live
        /\ browser = "open"

\* C11: in the deep-link callback, after the cookie parameter is merged
\* into the jar, '$sessionSignal' is notified only if
\* hasSessionCookieChanged(jar read, merged jar); a cookie that leaves the
\* session values as they were does not notify.
C11_CallbackNotifiesOnChange ==
    [][\A l \in DOMAIN listeners :
         LET L == listeners[l]
             L2 == listeners'[l]
             merged == getSetCookie(L.url.cookie, L.prev, clock * MsPerSecond)
         IN (L.pc = "cb_set" /\ L2.pc # "cb_set")
               => (L2.notified => hasSessionCookieChanged(L.prev, merged))]_vars

\* C18: no entry of the stored jar has an empty value.
C18_NoEmptyValue ==
    storage[CookieKey].kind = "object" =>
        \A k \in DOMAIN storage[CookieKey].entries :
            storage[CookieKey].entries[k].value # ""

----------------------------------------------------------------------------
(* The pre-request hook on every platform and scheme setting, with a body  *)
(* that carries the three callback fields.                                 *)

InitConfigs ==
    {[NativeConfig EXCEPT !.native = n, !.scheme = s] :
        n \in BOOLEAN, s \in {"", "myapp"}}

InitJars ==
    {NullStored, BadText,
     JSONStringify([k \in {PlainToken} |-> [value |-> "b", expires |-> NoNum]]),
     JSONStringify([k \in {PlainToken, SecureToken} |->
                      [value |-> IF k = SecureToken THEN "a" ELSE "b", expires |-> NoNum]])}

\* a field left out, a relative path, an absolute URL, a deep link
InitCallbacks == {<<>>, RelativeCallback, <<"https://site/cb">>, CallbackLink}

InitBodies ==
    {[NoBody EXCEPT !.callbackURL = c, !.newUserCallbackURL = n, !.errorCallbackURL = e] :
        c \in InitCallbacks, n \in InitCallbacks, e \in InitCallbacks}

HookInit ==
    /\ cin = NoArgs /\ cout = NoResult
    /\ opts \in InitConfigs
    /\ clock = 0
    /\ storage \in [{CookieKey, SessionKey} -> InitJars]
    /\ storage[SessionKey] = NullStored
    /\ session = LoggedIn
    /\ req = [r \in {"r1"} |-> IdleRequest]
    /\ browser = "closed"
    /\ bridge = NoBridge
    /\ listeners = EmptyMap

HookNext ==
    \/ \E r \in DOMAIN req, url \in ApiURLs, body \in InitBodies : InitCall(r, url, body)
    \/ \E r \in DOMAIN req : InitAfterGet(r)
    \/ \E r \in DOMAIN req : InitAfterSetCookie(r)
    \/ \E r \in DOMAIN req : InitReturn(r)
    \/ \E r \in DOMAIN req : Respond(r, NoResponse)
    \/ \E r \in DOMAIN req : OnSuccessCall(r)
    \/ \E r \in DOMAIN req : CacheAfterSet(r)
    \/ \E r \in DOMAIN req : Finish(r)

SpecInit == HookInit /\ [][HookNext]_vars

\* the token a jar text yields for init: the secure-prefixed session token
\* of the first prefix before the plain one, an empty value counting as none
JarToken(text) ==
    LET first == opts.cookiePrefix[1]
        secure == SECURE_COOKIE_PREFIX \o first \o <<".", "session_token">>
        plain == first \o <<".", "session_token">>
    IN IF text.kind # "object" THEN NoStr
       ELSE IF secure \in DOMAIN text.entries /\ text.entries[secure].value # ""
            THEN SomeStr(text.entries[secure].value)
       ELSE IF secure \notin DOMAIN text.entries /\ plain \in DOMAIN text.entries
               /\ text.entries[plain].value # ""
            THEN SomeStr(text.entries[plain].value)
       ELSE NoStr

\* C21: on a native platform init sets credentials to 'omit', sets the
\* Authorization header exactly when the stored jar yields a token, adds
\* capacitor-origin '<scheme>://' and x-skip-oauth-proxy exactly when a
\* scheme is configured, and adds no Cookie header.
C21_InitHeaders ==
    [][\A r \in DOMAIN req :
          (opts.native /\ req[r].pc = "init_get" /\ req'[r].pc # "init_get")
             => LET o == req'[r].options
                IN /\ o.credentials = "omit"
                   /\ o.authorization = JarToken(req[r].prev)
                   /\ o.origin = IF opts.scheme # "" THEN <<opts.scheme, ":/", "/">> ELSE <<>>
                   /\ o.skipProxy <=> opts.scheme # ""
                   /\ ~o.cookie.some]_vars

\* a request left init with a bearer token and the two Capacitor headers
C21_Witness ==
    \E r \in DOMAIN req :
        /\ opts.native /\ opts.scheme # ""
        /\ req[r].pc = "sent"
        /\ req[r].options.authorization = SomeStr("a")
        /\ req[r].options.skipProxy
        /\ req[r].options.credentials = "omit"

\* one callback field after init, as C22 states it
Rewritten(field) ==
    IF opts.scheme # "" /\ field # <<>> /\ field[1] = "/"
    THEN <<opts.scheme, ":/">> \o field
    ELSE field

\* C22: with a scheme init puts '<scheme>:/' before each of callbackURL,
\* newUserCallbackURL and errorCallbackURL that starts with '/', leaves
\* the other fields unchanged, and changes nothing in its own output;
\* without a scheme no body field is changed.
C22_CallbackRewrite ==
    [][\A r \in DOMAIN req :
          (opts.native /\ req[r].pc = "init_get" /\ req'[r].pc # "init_get")
             => LET before == req[r].options.body
                    after == req'[r].options.body
                IN /\ after.callbackURL = Rewritten(before.callbackURL)
                   /\ after.newUserCallbackURL = Rewritten(before.newUserCallbackURL)
                   /\ after.errorCallbackURL = Rewritten(before.errorCallbackURL)
                   /\ after.idToken = before.idToken
                   /\ Rewritten(after.callbackURL) = after.callbackURL
                   /\ Rewritten(after.newUserCallbackURL) = after.newUserCallbackURL
                   /\ Rewritten(after.errorCallbackURL) = after.errorCallbackURL
                   /\ (\A f \in {before.callbackURL, before.newUserCallbackURL,
                                   before.errorCallbackURL} :
                          f \in {Rewritten(g) : g \in InitCallbacks})
                         => after = before]_vars

\* a request left init with a rewritten path, an untouched absolute URL and
\* an untouched deep link
C22_Witness ==
    \E r \in DOMAIN req :
        /\ opts.native /\ opts.scheme = "myapp"
        /\ req[r].pc = "sent"
        /\ req[r].options.body.callbackURL = CallbackLink
        /\ req[r].options.body.newUserCallbackURL = <<"https://site/cb">>
        /\ req[r].options.body.errorCallbackURL = <<"myapp", ":/", "/", "cb">>

----------------------------------------------------------------------------
(* The session cache: onSuccess with and without disableCache, and the     *)
(* plugin action getCachedSession on what the key holds.                   *)

CacheConfigs ==
    {[NativeConfig EXCEPT !.native = n, !.disableCache = d] : n \in BOOLEAN, d \in BOOLEAN}

CacheURLs == {<<"/get-session">>, <<"/get-session", "?fresh">>, <<"/update-user">>}

CacheResponses ==
    {[NoResponse EXCEPT !.data.session = "user"],
     [NoResponse EXCEPT !.authToken = "a", !.data.session = "admin"]}

CachedTexts == {NullStored, BadText, DataText([NoData EXCEPT !.session = "old"])}

CacheInit ==
    /\ cin = NoArgs /\ cout = NoResult
    /\ opts \in CacheConfigs
    /\ clock = 0
    /\ storage \in [{CookieKey, SessionKey} -> CachedTexts]
    /\ storage[CookieKey] = NullStored
    /\ session = LoggedIn
    /\ req = [r \in {"r1"} |-> IdleRequest]
    /\ browser = "closed"
    /\ bridge = NoBridge
    /\ listeners = EmptyMap

CacheNext ==
    \/ \E r \in DOMAIN req, url \in CacheURLs : InitCall(r, url, NoBody)
    \/ \E r \in DOMAIN req : InitAfterGet(r)
    \/ \E r \in DOMAIN req, resp \in CacheResponses : Respond(r, resp)
    \/ \E r \in DOMAIN req : OnSuccessCall(r)
    \/ \E r \in DOMAIN req : TokenAfterGet(r)
    \/ \E r \in DOMAIN req : TokenAfterSet(r)
    \/ \E r \in DOMAIN req : CacheAfterSet(r)
    \/ \E r \in DOMAIN req : Finish(r)
    \/ getCachedSession("none")

SpecCache == CacheInit /\ [][CacheNext]_vars

\* onSuccess is running for the request
InOnSuccess(q) ==
    q.pc \in {"received", "token_get", "token_set", "cookie_get", "cookie_set", "cache_set"}

\* C23: when onSuccess (on a native platform) returns for a request whose
\* URL contains '/get-session' with disableCache not set, the session-data
\* key holds the JSON of the response data; with disableCache set or for
\* another URL no step of onSuccess writes the key; getCachedSession returns
\* the data the key holds, and null when the key is absent or unparsable.
C23_SessionCache ==
    [][/\ \A r \in DOMAIN req :
             LET q == req[r]
                 caches == /\ \E i \in 1..Len(q.url) : q.url[i] = "/get-session"
                           /\ ~opts.disableCache
             IN /\ (opts.native /\ InOnSuccess(q) /\ req'[r].pc = "done" /\ caches)
                      => storage'[SessionKey] =
                            [kind |-> "data", entries |-> EmptyMap, data |-> q.resp.data]
                /\ (InOnSuccess(q) /\ ~caches)
                      => storage'[SessionKey] = storage[SessionKey]
       /\ (cout' # cout /\ cout'.fn = "getCachedSession")
             => /\ ~cout'.threw
                /\ storage[SessionKey].kind = "data" => cout'.text = storage[SessionKey]
                /\ storage[SessionKey].kind \in {"absent", "text"}
                      => cout'.text.kind = "absent"]_vars

\* getCachedSession returned the data of a /get-session response that
\* replaced an older cache
C23_Witness ==
    /\ cout.fn = "getCachedSession"
    /\ cout.text.kind = "data"
    /\ cout.text.data.session = "admin"
    /\ storage[SessionKey] = cout.text
    /\ ~opts.disableCache

----------------------------------------------------------------------------
(* Server harness: one call of onRequest or of the after hook.             *)

HeaderValues == {NoStr, SomeStr("https://site"), SomeStr("capacitor://")}

ServerRequests ==
    {[origin |-> o, capacitorOrigin |-> c] : o \in HeaderValues, c \in HeaderValues}

ServerPaths ==
    {<<"/callback", "/github">>, <<"/oauth2/callback", "/x">>, <<"/magic-link/verify">>,
     <<"/verify-email">>, <<"/sign-in/social">>, <<"/get-session">>}

\* the trustedOrigins of init (lines 26-30) with the host's own
TrustedOriginSets ==
    {{<<"capacitor://">>, <<"ionic://">>},
     {<<"capacitor://">>, <<"ionic://">>, <<"myapp://">>, <<"http", "s://site">>},
     {<<"capacitor://">>, <<"ionic://">>, <<"http", "://localhost">>}}

Locations ==
    {<<>>, <<"myapp://", "cb">>, <<"capacitor://", "localhost/cb">>,
     <<"myapp://", "cb", "/oauth-proxy-callback">>,
     <<"http", "s://site", "/cb">>, <<"http", "://localhost", "/cb">>,
     <<"/", "dashboard">>}

ServerInputs ==
    {[NoArgs EXCEPT !.fn = "onRequest",
                    !.server = [NoServerCall EXCEPT !.disableOriginOverride = d,
                                                    !.request = q]] :
        d \in BOOLEAN, q \in ServerRequests}
    \cup
    {[NoArgs EXCEPT !.fn = "after",
                    !.server = [NoServerCall EXCEPT
                                  !.ctx = [path |-> p, location |-> l, setCookie |-> c,
                                           trustedOrigins |-> t]]] :
        p \in ServerPaths, l \in Locations, c \in {NoStr, SomeStr("session=s1")},
        t \in TrustedOriginSets}

ServerInit == cin \in ServerInputs /\ cout = NoResult /\ NoClient

CallOnRequest ==
    /\ cin.fn = "onRequest" /\ cout.fn = "none"
    /\ LET r == onRequest(cin.server, cin.server.request)
       IN cout' = [NoResult EXCEPT !.fn = cin.fn,
                                   !.server.returned = r.returned,
                                   !.server.request = r.request,
                                   !.server.original = r.original]
    /\ UNCHANGED <<cin, clientVars>>

\* the after hook runs its handler on the paths its matcher accepts
CallAfterHook ==
    /\ cin.fn = "after" /\ cout.fn = "none"
    /\ LET ctx == cin.server.ctx
       IN cout' = [NoResult EXCEPT
                     !.fn = cin.fn,
                     !.server.location = IF matcher(ctx.path) THEN AfterHandler(ctx)
                                         ELSE [text |-> ctx.location, cookie |-> NoStr]]
    /\ UNCHANGED <<cin, clientVars>>

ServerNext ==
    \/ CallOnRequest
    \/ CallAfterHook

SpecServer == ServerInit /\ [][ServerNext]_vars

\* C24: onRequest returns a replacement request whose Origin is the
\* capacitor-origin header exactly when disableOriginOverride is not set,
\* the request has no Origin header and has a capacitor-origin header;
\* otherwise it returns nothing; the request it was given keeps its headers.
C24_OriginOverride ==
    cout.fn = "onRequest" =>
        LET given == cin.server.request
            overrides == /\ ~cin.server.disableOriginOverride
                         /\ ~given.origin.some
                         /\ given.capacitorOrigin.some
        IN /\ cout.server.returned <=> overrides
           /\ cout.server.returned
                 => /\ cout.server.request.origin = given.capacitorOrigin
                    /\ cout.server.request.capacitorOrigin = given.capacitorOrigin
           /\ given.origin.some => ~cout.server.returned
           /\ cout.server.original = given

\* a request without Origin came back with the capacitor-origin as Origin
C24_Witness ==
    /\ cout.fn = "onRequest"
    /\ cout.server.returned
    /\ ~cin.server.request.origin.some
    /\ cout.server.request.origin = SomeStr("capacitor://")

\* the first token of a text is 'http'
IsHttp(text) == text # <<>> /\ text[1] = "http"

\* C25: on the callback and verification paths the after hook sets the
\* cookie parameter on the location exactly when a location exists, does
\* not contain '/oauth-proxy-callback', starts with a trusted origin that
\* does not start with 'http', and a set-cookie header exists; otherwise
\* the location is unchanged; a location that starts with 'http' never
\* gets the cookie.
C25_CookieOnDeepLinkOnly ==
    cout.fn = "after" =>
        LET ctx == cin.server.ctx
            onPath == ctx.path[1] \in {"/callback", "/oauth2/callback",
                                       "/magic-link/verify", "/verify-email"}
            sets == /\ onPath
                    /\ ctx.location # <<>>
                    /\ \A i \in 1..Len(ctx.location) :
                          ctx.location[i] # "/oauth-proxy-callback"
                    /\ \E origin \in ctx.trustedOrigins :
                          /\ ~IsHttp(origin)
                          /\ SubSeq(ctx.location, 1, Len(origin)) = origin
                    /\ ctx.setCookie.some
        IN /\ cout.server.location.text = ctx.location
           /\ cout.server.location.cookie = (IF sets THEN ctx.setCookie ELSE NoStr)
           /\ IsHttp(ctx.location) => ~cout.server.location.cookie.some

\* a deep-link location got the cookie while an HTTP origin was trusted too
C25_Witness ==
    /\ cout.fn = "after"
    /\ cin.server.ctx.location = <<"myapp://", "cb">>
    /\ <<"http", "s://site">> \in cin.server.ctx.trustedOrigins
    /\ cout.server.location.cookie = SomeStr("session=s1")

----------------------------------------------------------------------------
(* Harness of the native plugin: three calls, on iOS or on Android.        *)

BridgeCalls == {"c1", "c2", "c3"}

CompletionOutcomes == {"url", "canceledLogin", "error", "nothing"}

IntentData == {NoStr, SomeStr("myapp"), SomeStr("other")}

BridgeInit ==
    /\ cin = NoArgs /\ cout = NoResult
    /\ opts = NativeConfig
    /\ clock = 0
    /\ storage = EmptyMap
    /\ session = LoggedIn
    /\ req = EmptyMap
    /\ browser = "closed"
    /\ listeners = EmptyMap
    /\ \E platform \in {"ios", "android"} :
          bridge = [NoBridge EXCEPT !.platform = platform,
                                    !.calls = [c \in BridgeCalls |-> IdleCall]]

\* what the system and the user do once a browsing session was started
BridgeEvents ==
    \/ \E c \in BridgeCalls, outcome \in CompletionOutcomes : IosCompletion(c, outcome)
    \/ \E data \in IntentData : AndroidRedirect(data)
    \/ AndroidUserDismisses

BridgeNext ==
    \/ \E c \in BridgeCalls, valid \in BOOLEAN : IosOpenAuthSession(c, valid)
    \/ \E c \in BridgeCalls, valid \in BOOLEAN : AndroidOpenAuthSession(c, valid)
    \/ BridgeEvents

\* a browsing session that was started comes to an end
SpecBridge == BridgeInit /\ [][BridgeNext]_vars /\ WF_vars(BridgeEvents)

\* C26: every call of openAuthSession with valid arguments eventually
\* settles, exactly once: resolved with the callback URL, or rejected with
\* USER_CANCELED, AUTH_FAILED or NO_CALLBACK.
C26_SettlesOnce ==
    /\ \A c \in BridgeCalls :
          (bridge.calls[c].status = "pending")
             ~> (bridge.calls[c].status \in {"resolved", "rejected"})
    /\ [](\A c \in BridgeCalls :
             /\ bridge.calls[c].settled <= 1
             /\ bridge.calls[c].status = "resolved" => bridge.calls[c].url # ""
             /\ (bridge.calls[c].status = "rejected" /\ bridge.calls[c].code # "")
                   => bridge.calls[c].code \in {"USER_CANCELED", "AUTH_FAILED", "NO_CALLBACK"})

----------------------------------------------------------------------------
(* The client on a native platform and off one (a web build): the token    *)
(* helpers, init and onSuccess, with responses that carry a                *)
(* set-auth-token header, a Set-Cookie header or an OAuth redirect.  The   *)
(* store may hold a jar and a cached session from an earlier run.          *)

PlatformConfigs == {OAuthConfig, [OAuthConfig EXCEPT !.native = FALSE]}

PlatformURLs == {<<"/get-session">>, <<"/sign-in", "/social">>, <<"/sign-out">>}

PlatformBodies == {NoBody, [NoBody EXCEPT !.callbackURL = RelativeCallback]}

PlatformResponses ==
    {[NoResponse EXCEPT !.authToken = "a", !.data.session = "user"],
     [NoResponse EXCEPT !.setCookie = SessionCookieHeader, !.data.session = "user"],
     [NoResponse EXCEPT !.data.redirect = TRUE, !.data.url = "https://idp/auth"]}

PlatformStores ==
    {[k \in {CookieKey, SessionKey} |-> NullStored],
     [k \in {CookieKey, SessionKey} |->
        IF k = CookieKey
        THEN JSONStringify(TokenEntries(DefaultPrefix, "b", ToISOString(SevenDays)))
        ELSE DataText([NoData EXCEPT !.session = "user"])]}

PlatformInit ==
    /\ cin = NoArgs /\ cout = NoResult
    /\ opts \in PlatformConfigs
    /\ clock = 0
    /\ storage \in PlatformStores
    /\ session = LoggedIn
    /\ req = [r \in {"r1"} |-> IdleRequest]
    /\ browser = "closed"
    /\ bridge = NoBridge
    /\ listeners = [l \in {1} |-> IdleListener]

PlatformNext ==
    \/ setCapacitorAuthToken("a", NoStr, "none")
    \/ clearCapacitorAuthToken("none")
    \/ getCapacitorAuthToken("none")
    \/ \E r \in DOMAIN req, url \in PlatformURLs, body \in PlatformBodies :
          InitCall(r, url, body)
    \/ \E r \in DOMAIN req : InitAfterGet(r)
    \/ \E r \in DOMAIN req : InitAfterSetCookie(r)
    \/ \E r \in DOMAIN req : InitReturn(r)
    \/ \E r \in DOMAIN req, resp \in PlatformResponses : Respond(r, resp)
    \/ \E r \in DOMAIN req : OnSuccessCall(r)
    \/ \E r \in DOMAIN req : TokenAfterGet(r)
    \/ \E r \in DOMAIN req : TokenAfterSet(r)
    \/ \E r \in DOMAIN req : CookieAfterGet(r)
    \/ \E r \in DOMAIN req : CookieAfterSet(r)
    \/ \E r \in DOMAIN req : CacheAfterSet(r)
    \/ \E r \in DOMAIN req : OAuthAfterGet(r)
    \/ \E r \in DOMAIN req : OAuthAfterOpen(r)
    \/ \E r \in DOMAIN req : Finish(r)

SpecPlatform == PlatformInit /\ [][PlatformNext]_vars

\* C27: off a native platform setCapacitorAuthToken and
\* clearCapacitorAuthToken return false, getCapacitorAuthToken returns null,
\* init returns the url and the options it was given, onSuccess returns at
\* once; no step reads or writes the store, opens the browser, registers a
\* listener or notifies the session signal.
C27_NonNativeNoOp ==
    [][(~isNativePlatform) =>
         /\ storage' = storage /\ session' = session
         /\ browser' = browser /\ listeners' = listeners
         /\ (cout' # cout /\ cout'.fn \in {"setCapacitorAuthToken", "clearCapacitorAuthToken"})
               => ~cout'.flag
         /\ (cout' # cout /\ cout'.fn = "getCapacitorAuthToken") => cout'.token = NoStr
         /\ \A r \in DOMAIN req :
               LET q == req[r]
                   q2 == req'[r]
               IN /\ q2.prev = NullStored
                  /\ ~q2.notifiedToken /\ ~q2.notifiedCookie /\ ~q2.proxy.opened
                  /\ (q.pc = "idle" /\ q2.pc # "idle")
                        => /\ q2.pc = "sent"
                           /\ q2.options = [NoOptions EXCEPT !.body = q2.options.body]
                           /\ q2.options.body \in PlatformBodies
                  /\ (q.pc = "received" /\ q2.pc # "received") => q2.pc = "done"]_vars

\* off a native platform, with a jar and a cached session in the store: a
\* sign-in request with a relative callbackURL went out as it was given, an
\* OAuth redirect came back and onSuccess has returned; setCapacitorAuthToken
\* has answered false
C27_Witness ==
    /\ ~isNativePlatform
    /\ storage[CookieKey] # NullStored /\ storage[SessionKey] # NullStored
    /\ cout.fn = "setCapacitorAuthToken" /\ ~cout.flag
    /\ \E r \in DOMAIN req :
          /\ req[r].pc = "done"
          /\ req[r].url = <<"/sign-in", "/social">>
          /\ req[r].options.body.callbackURL = RelativeCallback
          /\ req[r].options.credentials = "same-origin"
          /\ req[r].resp.data.redirect
    /\ browser = "closed" /\ ~listeners[1].live

----------------------------------------------------------------------------
(* Two requests in flight at once whose responses set different cookies of *)
(* the auth system: the session token and the session data.                *)

LostUpdateURLs == {<<"/update-user">>}

SessionDataHeader == <<Cookie(SessionData, "d", NoNum, NoNum)>>

LostUpdateResponses ==
    {[NoResponse EXCEPT !.setCookie = h, !.data.session = "user"] :
        h \in {SessionCookieHeader, SessionDataHeader}}

LostUpdateInit == ClientInit({NativeConfig}, {"r1", "r2"}, {})

LostUpdateNext ==
    \/ \E r \in DOMAIN req, url \in LostUpdateURLs : InitCall(r, url, NoBody)
    \/ \E r \in DOMAIN req : InitAfterGet(r)
    \/ \E r \in DOMAIN req, resp \in LostUpdateResponses : Respond(r, resp)
    \/ \E r \in DOMAIN req : OnSuccessCall(r)
    \/ \E r \in DOMAIN req : CookieAfterGet(r)
    \/ \E r \in DOMAIN req : CookieAfterSet(r)
    \/ \E r \in DOMAIN req : Finish(r)
    \/ Tick

SpecLostUpdate == LostUpdateInit /\ [][LostUpdateNext]_vars

\* C28: nothing serializes the read-modify-write of the jar.  Whatever the
\* other request is doing, an onSuccess whose response has arrived can start
\* and read the jar, and one that has read the jar can write; what it writes
\* is the merge of its header into the jar it read, also when the store has
\* been written since, so that the other write is lost.
C28_LostUpdate ==
    /\ [](\A r \in DOMAIN req :
            /\ req[r].pc = "received" => ENABLED OnSuccessCall(r)
            /\ req[r].pc = "cookie_get" => ENABLED CookieAfterGet(r))
    /\ [][\A r \in DOMAIN req :
            (req[r].pc = "cookie_get" /\ req'[r].pc = "cookie_set")
               => storage'[CookieKey] =
                     getSetCookie(req[r].resp.setCookie, req[r].prev, clock * MsPerSecond)]_vars

\* both invocations have returned; they read the same jar, one response set
\* the session token and the other the session data, and the stored jar has
\* the session data only
C28_Witness ==
    /\ req["r1"].pc = "done" /\ req["r2"].pc = "done"
    /\ req["r1"].prev = req["r2"].prev
    /\ req["r1"].resp.setCookie = SessionCookieHeader
    /\ req["r2"].resp.setCookie = SessionDataHeader
    /\ storage[CookieKey].kind = "object"
    /\ SessionData \in DOMAIN storage[CookieKey].entries
    /\ PlainToken \notin DOMAIN storage[CookieKey].entries

----------------------------------------------------------------------------
(* The end of the OAuth exchange, checked under SpecOAuth *)

\* listener l is registered and no callback of it is running
AwaitingCallback(l) == listeners[l].live /\ listeners[l].pc = "idle"

\* C29: a registered listener that awaits its callback stays as it is in
\* every step but the delivery of an appUrlOpen event; dismissing the
\* browser is no such step.  A listener is removed only by its own callback
\* after Browser.close, and Browser.close is called only by a callback.
C29_StallsWithoutDeepLink ==
    [][\A l \in DOMAIN listeners :
         /\ AwaitingCallback(l)
               => \/ listeners'[l] = listeners[l]
                  \/ listeners'[l].url \in DeepLinks
         /\ (listeners[l].live /\ ~listeners'[l].live) => listeners[l].pc = "cb_close"
         /\ (listeners'[l].closeCalled /\ ~listeners[l].closeCalled)
               => \/ listeners'[l].url \in DeepLinks /\ listeners[l].pc = "idle"
                  \/ listeners[l].pc = "cb_set"]_vars

\* the browser was opened for an exchange and the user has dismissed it:
\* the request is over, the listener is still registered and its callback
\* has not run
C29_Witness ==
    /\ browser = "closed"
    /\ AwaitingCallback(1)
    /\ ~listeners[1].closeCalled
    /\ \A r \in DOMAIN req : req[r].pc = "idle"

----------------------------------------------------------------------------
(* Two social sign-ins, one after the other, on one client: the second     *)
(* starts while the listener of the first still waits for its deep link.   *)

ExchangeBodies == {[NoBody EXCEPT !.callbackURL = RelativeCallback], NoBody}

ExchangeResponses ==
    {[NoResponse EXCEPT !.data.redirect = TRUE, !.data.url = "https://idp/auth"]}

\* a text new URL() throws on: it has no scheme
BadLink == <<"cb">>

ExchangeLinks ==
    {[text |-> CallbackLink, cookie |-> <<Cookie(SecureToken, "a", NoNum, NoNum)>>],
     [text |-> OtherLink, cookie |-> <<>>],
     [text |-> BadLink, cookie |-> <<Cookie(SecureToken, "a", NoNum, NoNum)>>]}

ExchangeInit == ClientInit({OAuthConfig}, {"r1"}, {1, 2})

ExchangeNext ==
    \/ \E r \in DOMAIN req, body \in ExchangeBodies :
          InitCall(r, <<"/sign-in", "/social">>, body)
    \/ \E r \in DOMAIN req : InitAfterGet(r)
    \/ \E r \in DOMAIN req, resp \in ExchangeResponses : Respond(r, resp)
    \/ \E r \in DOMAIN req : OnSuccessCall(r)
    \/ \E r \in DOMAIN req : OAuthAfterGet(r)
    \/ \E r \in DOMAIN req : OAuthAfterOpen(r)
    \/ \E r \in DOMAIN req : Finish(r)
    \/ \E url \in ExchangeLinks : DeepLink(url)
    \/ \E l \in DOMAIN listeners : CallbackAfterGet(l)
    \/ \E l \in DOMAIN listeners : CallbackAfterSet(l)
    \/ \E l \in DOMAIN listeners : CallbackAfterClose(l)
    \/ \E l \in DOMAIN listeners : CallbackReturn(l)
    \/ \E l \in DOMAIN listeners : CallbackStorageRejects(l)
    \/ UserClosesBrowser

SpecExchanges == ExchangeInit /\ [][ExchangeNext]_vars

\* C30: at most one appUrlOpen listener registered by onSuccess is live, and
\* a deep link is handled by at most one callback: at most one callback
\* merges its cookie into the jar, notifies, or calls Browser.close.
C30_OneExchange ==
    /\ Cardinality({l \in DOMAIN listeners : listeners[l].live}) <= 1
    /\ Cardinality({l \in DOMAIN listeners : listeners[l].pc # "idle"}) <= 1

----------------------------------------------------------------------------
(* A deep link that is no URL, checked under SpecExchanges *)

\* C31: when the URL of an appUrlOpen event cannot be parsed, the callback
\* of every registered listener returns without an error: the jar stays as
\* it is, no notification is sent, Browser.close is not called, and the
\* listener is registered as before when the callback has returned.
C31_BadLinkIgnored ==
    [][\A l \in DOMAIN listeners :
         LET L == listeners[l]
             L2 == listeners'[l]
         IN /\ (L.live /\ L.pc = "idle" /\ L2.url.text = BadLink)
                  => /\ L2 = [L EXCEPT !.pc = "cb_done", !.url = L2.url]
                     /\ storage' = storage /\ browser' = browser
            /\ (L.url.text = BadLink /\ L.pc # "idle")
                  => /\ L.pc = "cb_done" /\ L.live
                     /\ ~L.notified /\ ~L.closeCalled
                     /\ L2 \in {L, [IdleListener EXCEPT !.live = TRUE,
                                                       !.callbackURL = L.callbackURL]}]_vars

\* the app was opened with a text that is no URL while the browser is open
\* for an exchange: the callback has run to its end, the jar is still
\* absent, the browser is open and the listener is registered
C31_Witness ==
    /\ listeners[1].live /\ listeners[1].pc = "cb_done"
    /\ listeners[1].url.text = BadLink /\ listeners[1].url.cookie # <<>>
    /\ listeners[1].callbackURL # <<>>
    /\ storage[CookieKey] = NullStored
    /\ browser = "open"

----------------------------------------------------------------------------
(* A sign-out while a get-session request is in flight.  Slot r1 serves    *)
(* the get-session requests, which the host issues only while no sign-out  *)
(* is under way; slot r2 serves the sign-out, whose response sets nothing. *)

SignOutResponses ==
    {[NoResponse EXCEPT !.authToken = "a", !.data.session = "user"],
     [NoResponse EXCEPT !.setCookie = SessionCookieHeader, !.data.session = "user"]}

\* the host asks for the session; no sign-out has begun
IssueGetSession ==
    /\ req["r2"].pc = "idle"
    /\ InitCall("r1", <<"/get-session">>, NoBody)

SignOutInit == ClientInit({NativeConfig}, {"r1", "r2"}, {})

SignOutNext ==
    \/ IssueGetSession
    \/ InitCall("r2", <<"/sign-out">>, NoBody)
    \/ \E r \in DOMAIN req : InitAfterGet(r)
    \/ \E r \in DOMAIN req : InitAfterSetCookie(r)
    \/ \E r \in DOMAIN req : InitReturn(r)
    \/ \E resp \in SignOutResponses : Respond("r1", resp)
    \/ Respond("r2", NoResponse)
    \/ \E r \in DOMAIN req : OnSuccessCall(r)
    \/ \E r \in DOMAIN req : TokenAfterGet(r)
    \/ \E r \in DOMAIN req : TokenAfterSet(r)
    \/ \E r \in DOMAIN req : CookieAfterGet(r)
    \/ \E r \in DOMAIN req : CookieAfterSet(r)
    \/ \E r \in DOMAIN req : CacheAfterSet(r)
    \/ \E r \in DOMAIN req : Finish(r)

SpecSignOut == SignOutInit /\ [][SignOutNext]_vars

\* the stored jar has a session token with a value
HoldsSessionToken(jar) ==
    /\ jar.kind = "object"
    /\ \E n \in DOMAIN jar.entries :
          n \in {PlainToken, SecureToken} /\ jar.entries[n].value # ""

\* C32: from the reset of the jar by the init of a sign-out until the
\* sign-out request is over, the jar holds no session token with a value,
\* and from the reset of the session cache on the cache holds no session;
\* the response of a request that was in flight when the sign-out began
\* puts neither back.
C32_NoSessionAfterSignOut ==
    /\ req["r2"].pc \in {"init_set_cookie", "init_set_cache", "sent", "received", "done"}
          => ~HoldsSessionToken(storage[CookieKey])
    /\ req["r2"].pc \in {"init_set_cache", "sent", "received", "done"}
          => storage[SessionKey] = EmptyJar

----------------------------------------------------------------------------
(* The refetch loop: a get-session response is handled in slot r1; the     *)
(* host then fetches the session again in slot r2 and the server answers   *)
(* with the same set-auth-token and Set-Cookie headers.                    *)

RefetchTokens == {"", "a", "b"}

RefetchHeaders ==
    {<<>>,
     SessionCookieHeader,
     <<Cookie(SecureToken, "a", NoNum, NoNum)>>,
     <<Cookie(PlainToken, "a", SomeNum(1), NoNum), Cookie(SessionData, "d", NoNum, NoNum)>>}

RefetchResponses ==
    {[NoResponse EXCEPT !.authToken = t, !.setCookie = h, !.data.session = "user"] :
        t \in RefetchTokens, h \in RefetchHeaders}

\* the session is fetched again when the first response has been handled
Refetch ==
    /\ req["r1"].pc = "done"
    /\ InitCall("r2", <<"/get-session">>, NoBody)

\* the server answers the refetch as it answered the first request
RespondAsBefore ==
    /\ req["r1"].pc = "done"
    /\ Respond("r2", req["r1"].resp)

RefetchInit == ClientInit({NativeConfig}, {"r1", "r2"}, {})

RefetchNext ==
    \/ InitCall("r1", <<"/get-session">>, NoBody)
    \/ Refetch
    \/ \E r \in DOMAIN req : InitAfterGet(r)
    \/ \E resp \in RefetchResponses : Respond("r1", resp)
    \/ RespondAsBefore
    \/ \E r \in DOMAIN req : OnSuccessCall(r)
    \/ \E r \in DOMAIN req : TokenAfterGet(r)
    \/ \E r \in DOMAIN req : TokenAfterSet(r)
    \/ \E r \in DOMAIN req : CookieAfterGet(r)
    \/ \E r \in DOMAIN req : CookieAfterSet(r)
    \/ \E r \in DOMAIN req : CacheAfterSet(r)
    \/ Tick

SpecRefetch == RefetchInit /\ [][RefetchNext]_vars

\* C33: when onSuccess has handled a response, handling a further response
\* with the same set-auth-token and Set-Cookie headers notifies
\* '$sessionSignal' in neither section.
C33_RefetchQuiescent ==
    ~req["r2"].notifiedToken /\ ~req["r2"].notifiedCookie

----------------------------------------------------------------------------
(* The bearer token of the next request.  Slot r1 serves the requests      *)
(* whose responses deliver a session token, one after the other; when one  *)
(* has been handled the host sends the next request in slot r2, whose      *)
(* response has no header of the auth system.                              *)

PlainOnlyHeader == <<Cookie(PlainToken, "b", NoNum, NoNum)>>
SecureOnlyHeader == <<Cookie(SecureToken, "b", NoNum, NoNum)>>

DeliveryResponses ==
    {[NoResponse EXCEPT !.authToken = "a"],
     [NoResponse EXCEPT !.setCookie = PlainOnlyHeader],
     [NoResponse EXCEPT !.setCookie = SecureOnlyHeader]}

\* a request whose response will deliver a token; no next request is under way
IssueDelivery ==
    /\ req["r2"].pc = "idle"
    /\ InitCall("r1", <<"/update-user">>, NoBody)

\* the next request, sent when the response in slot r1 has been handled
IssueNextRequest ==
    /\ req["r1"].pc = "done"
    /\ InitCall("r2", <<"/update-user">>, NoBody)

BearerInit == ClientInit({NativeConfig}, {"r1", "r2"}, {})

BearerNext ==
    \/ IssueDelivery
    \/ IssueNextRequest
    \/ \E r \in DOMAIN req : InitAfterGet(r)
    \/ \E resp \in DeliveryResponses : Respond("r1", resp)
    \/ Respond("r2", NoResponse)
    \/ \E r \in DOMAIN req : OnSuccessCall(r)
    \/ \E r \in DOMAIN req : TokenAfterGet(r)
    \/ \E r \in DOMAIN req : TokenAfterSet(r)
    \/ \E r \in DOMAIN req : CookieAfterGet(r)
    \/ \E r \in DOMAIN req : CookieAfterSet(r)
    \/ \E r \in DOMAIN req : Finish(r)

SpecBearer == BearerInit /\ [][BearerNext]_vars

\* the session-token value a response delivers: the value of its Set-Cookie
\* header, which is handled last, or else its set-auth-token header
Delivered(resp) ==
    IF resp.setCookie # <<>> THEN resp.setCookie[1].value ELSE resp.authToken

\* C34: the bearer token init attaches to the next request is the
\* session-token value the most recent response delivered, whether it came
\* in set-auth-token or in a Set-Cookie header that names only the plain or
\* only the '__Secure-' session-token cookie.
C34_BearerIsLatest ==
    (req["r1"].pc = "done" /\ req["r2"].pc = "sent")
       => req["r2"].options.authorization = SomeStr(Delivered(req["r1"].resp))

----------------------------------------------------------------------------
(* The end of an exchange, checked under SpecExchanges *)

\* C35: when the callback for the deep link of the exchange has returned,
\* Browser.close was called and the listener is removed, whatever sign-in
\* body started the exchange and whether the storage calls of the callback
\* resolved or rejected.
C35_ExchangeEnds ==
    [][\A l \in DOMAIN listeners :
         (/\ listeners[l].live
          /\ listeners[l].pc # "idle"
          /\ listeners[l].url.text = CallbackLink
          /\ listeners'[l].pc = "idle")
            => /\ ~listeners'[l].live
               /\ listeners[l].closeCalled]_vars

----------------------------------------------------------------------------
(* The sign-out request, checked under SpecInit *)

\* C36: when init handles a URL containing '/sign-out' on a native platform,
\* the options it goes on with carry the token the jar held when init read
\* it, and the jar is reset to '{}' in the same step, after the token was
\* taken; the options are the same when init returns.
C36_SignOutCarriesToken ==
    [][\A r \in DOMAIN req :
         LET q == req[r]
             q2 == req'[r]
         IN (isNativePlatform /\ Includes(q.url, <<"/sign-out">>))
               => /\ (q.pc = "init_get" /\ q2.pc # "init_get")
                        => /\ q2.pc = "init_set_cookie"
                           /\ q2.options.authorization = JarToken(q.prev)
                           /\ storage'[CookieKey] = EmptyJar
                  /\ (q.pc \in {"init_set_cookie", "init_set_cache"}
                         /\ q2.pc \in {"init_set_cookie", "init_set_cache", "sent"})
                        => q2.options = q.options]_vars

\* the sign-out request has left init with the token a of the jar, and the
\* jar is '{}'
C36_Witness ==
    \E r \in DOMAIN req :
        /\ isNativePlatform
        /\ req[r].pc = "sent"
        /\ Includes(req[r].url, <<"/sign-out">>)
        /\ req[r].options.authorization = SomeStr("a")
        /\ storage[CookieKey] = EmptyJar

----------------------------------------------------------------------------
(* Client and server plugin together: the client sends a sign-in request,  *)
(* the endpoint produces {url, redirect: true}, the after hooks of the     *)
(* server plugin run, and the client's onSuccess handles the response.     *)

EndToEndConfigs == {OAuthConfig, [OAuthConfig EXCEPT !.scheme = ""]}

EndToEndURLs ==
    {<<"/sign-in", "/social">>, <<"/sign-in", "/oauth2">>, <<"/link-social">>,
     <<"/sign-in", "/email">>}

EndToEndBodies ==
    {[NoBody EXCEPT !.callbackURL = RelativeCallback],
     [NoBody EXCEPT !.idToken = TRUE, !.callbackURL = RelativeCallback]}

\* what the endpoint returns
Produced == [NoData EXCEPT !.redirect = TRUE, !.url = "https://idp/auth"]

\* the server answers request r: the after hook of the sign-in paths runs
\* on what the endpoint returned, with the capacitor-origin header the
\* client's init put on the request
ServerRespond(r) ==
    LET q == req[r]
        returned == IF signInMatcher(q.url)
                    THEN SuppressRedirect(q.options.origin, Produced)
                    ELSE Produced
    IN Respond(r, [NoResponse EXCEPT !.data = returned])

EndToEndInit == ClientInit(EndToEndConfigs, {"r1"}, {1})

EndToEndNext ==
    \/ \E r \in DOMAIN req, url \in EndToEndURLs, body \in EndToEndBodies :
          InitCall(r, url, body)
    \/ \E r \in DOMAIN req : InitAfterGet(r)
    \/ \E r \in DOMAIN req : ServerRespond(r)
    \/ \E r \in DOMAIN req : OnSuccessCall(r)
    \/ \E r \in DOMAIN req : OAuthAfterGet(r)
    \/ \E r \in DOMAIN req : OAuthAfterOpen(r)
    \/ \E r \in DOMAIN req : Finish(r)
    \/ UserClosesBrowser

SpecEndToEnd == EndToEndInit /\ [][EndToEndNext]_vars

\* C37: when a client with a scheme has sent a social sign-in request
\* without an idToken and the endpoint produced {url, redirect: true}, the
\* onSuccess that handles the response starts the OAuth exchange: its next
\* await is the one that leads to Browser.open on the proxy URL.
C37_ExchangeStarts ==
    [][\A r \in DOMAIN req :
         (/\ isNativePlatform /\ opts.scheme # ""
          /\ signInMatcher(req[r].url)
          /\ ~req[r].options.body.idToken
          /\ req[r].pc = "received" /\ req'[r].pc # "received")
            => req'[r].pc = "oauth_get"]_vars

====
